---- MODULE Spec2Model ----
(***************************************************************************)
(* Physics rig assembly / teardown engine of mmd_tools                     *)
(* (src/mmd_tools/core/model.py, class Model: build, clean, __preBuild,     *)
(* buildRigids, updateRigid, buildJoints, __postBuild).                     *)
(*                                                                         *)
(* Transforms.  A 4x4 rigid transform is modelled by a planar rigid motion  *)
(* [r, x, y]: a rotation by r quarter turns followed by the translation     *)
(* (x, y).  matmul is the composition of motions (not commutative),         *)
(* decompose() yields the translation (location) and the rotation           *)
(* (rotation_euler); scale is 1 throughout.  Lengths are in tenths of a     *)
(* scene unit.                                                              *)
(***************************************************************************)
EXTENDS Integers, Sequences, FiniteSets, TLC

VARIABLES rig, pc, pre, base, post, maps, hist, arg, ret

vars == <<rig, pc, pre, base, post, maps, hist, arg, ret>>

\* ------------------------------------------------------------------ bounds
NumBodies == 3
NumJoints == 2
MaxMass == 2
\* the number of steps called on their own in one run
MaxSteps == 2
\* the bounding-box coordinates run over MaxCoord + 1 values
MaxCoord == 2
\* the number of edits of a dynamics kind in one run
MaxEdits == 1

Bodies == 1..NumBodies
Joints == 1..NumJoints
Masses == 1..MaxMass
\* pose bones of the armature; 0 stands for the empty bone name ''
Bones == {1, 2}
NoBone == 0
\* collision groups used by the rigs of the model (the program has 16)
Groups == {0, 1}

\* rigid_body.MODE_STATIC / MODE_DYNAMIC / MODE_DYNAMIC_BONE
MODE_STATIC == 0
MODE_DYNAMIC == 1
MODE_DYNAMIC_BONE == 2
Modes == {MODE_STATIC, MODE_DYNAMIC, MODE_DYNAMIC_BONE}

\* bpyutils.addon_preferences('non_collision_threshold', 1.5), in tenths
NonCollisionThreshold == 15

\* the collision shapes of mmd_rigid.shape that rb.collision_shape accepts
Shapes == {"SPHERE", "BOX", "CAPSULE"}

\* ------------------------------------------------------------- transforms
Vec(x, y) == [x |-> x, y |-> y]

VecAdd(a, b) == Vec(a.x + b.x, a.y + b.y)

VecSub(a, b) == Vec(a.x - b.x, a.y - b.y)

\* squared Euclidean length of a vector
LengthSq(v) == v.x * v.x + v.y * v.y

\* rotate a vector by r quarter turns
Rot(r, v) ==
    CASE r % 4 = 0 -> Vec(v.x, v.y)
      [] r % 4 = 1 -> Vec(0 - v.y, v.x)
      [] r % 4 = 2 -> Vec(0 - v.x, 0 - v.y)
      [] OTHER     -> Vec(v.y, 0 - v.x)

Mat(r, x, y) == [r |-> r % 4, x |-> x, y |-> y]

Identity == Mat(0, 0, 0)

\* matmul(a, b): first b, then a
matmul(a, b) ==
    LET p == VecAdd(Vec(a.x, a.y), Rot(a.r, Vec(b.x, b.y)))
    IN  Mat(a.r + b.r, p.x, p.y)

\* Matrix.inverted()
inverted(a) ==
    LET p == Rot(4 - a.r, Vec(0 - a.x, 0 - a.y))
    IN  Mat(4 - a.r, p.x, p.y)

\* Matrix.decompose(): translation and rotation (scale is dropped by the callers)
decompose(m) == [t |-> Vec(m.x, m.y), r |-> m.r]

\* the basis matrix of an object with the given location and rotation
Basis(loc, rot) == Mat(rot, loc.x, loc.y)

\* ------------------------------------------------------------------ scene
\* An optional value (a Python None, a missing key, a missing constraint) is a
\* sequence of length 0; a present one is a sequence of length 1.
None == <<>>

Some(v) == <<v>>

\* skeleton: pose matrix (target_bone.matrix) and rest matrix
\* (target_bone.bone.matrix_local) of each pose bone.  Bone 1 is posed away
\* from its rest pose, bone 2 is in its rest pose.
BoneMatrix(b) == IF b = 1 THEN Mat(1, 7, 3) ELSE Mat(0, 0, 20)

BoneRest(b) == IF b = 1 THEN Mat(0, 4, 0) ELSE Mat(0, 0, 20)

\* bone 1 carries one IK constraint, bone 2 none
BoneHasIK(b) == b = 1

\* world matrix of the rigid-body container group (and of the armature object)
GroupWorld == Identity

\* obj.matrix_local: the object's basis relative to its parent
matrix_local(o) == Basis(o.location, o.rotation)

\* the world matrix of the parent of a rigid body: the container group, or the
\* bone it is bone-parented to
ParentWorld(o) ==
    IF o.parent = "arm" /\ o.parent_type = "BONE" THEN BoneMatrix(o.parent_bone)
    ELSE GroupWorld

\* obj.matrix_world
matrix_world(o) == matmul(ParentWorld(o), matrix_local(o))

\* the 'mmd_tools_rigid_parent' CHILD_OF constraint; its target is the armature
Relation(bone) == [mute |-> TRUE, subtarget |-> bone]

\* a rigid body as Model.createRigidBody leaves it
NewBody(type, bone, mass, group, mask, range, loc, rot) ==
    [ type            |-> type,
      rigid_body      |-> TRUE,
      mass            |-> mass,
      kinematic       |-> (type = MODE_STATIC),
      shape           |-> "SPHERE",
      collision_shape_set |-> FALSE,
      group           |-> group,
      mask            |-> mask,
      range           |-> range,
      location        |-> loc,
      rotation        |-> rot,
      parent          |-> "rigid_grp",
      parent_type     |-> "OBJECT",
      parent_bone     |-> NoBone,
      relation        |-> Some(Relation(bone)),
      bone            |-> bone,
      backup_location |-> None,
      backup_rotation |-> None ]

\* a joint as Model.createJoint leaves it; rbc = FALSE: no rigid_body_constraint
NewJoint(rbc, o1, o2, loc, rot) ==
    [ rbc                |-> rbc,
      object1            |-> o1,
      object2            |-> o2,
      disable_collisions |-> FALSE,
      location           |-> loc,
      rotation           |-> rot,
      backup_location    |-> None,
      backup_rotation    |-> None ]

NewBone(b) ==
    [ ik    |-> IF BoneHasIK(b) THEN Some([mute |-> FALSE]) ELSE None,
      track |-> None ]

\* an attribute of the Model instance holding a dict: st is "unset" (the
\* attribute was never assigned), "None" or "dict"
NoDict == [st |-> "None", d |-> <<>>]

UnsetDict == [st |-> "unset", d |-> <<>>]

EmptyDict == [st |-> "dict", d |-> <<>>]

NewRig(bodies, joints) ==
    [ mmd_type        |-> "ROOT",
      is_built        |-> FALSE,
      temporary_grp   |-> FALSE,
      bodies          |-> bodies,
      joints          |-> joints,
      bones           |-> [b \in Bones |-> NewBone(b)],
      temps           |-> <<>>,
      fake_parent_map       |-> UnsetDict,
      rigid_body_matrix_map |-> UnsetDict,
      empty_parent_map      |-> UnsetDict,
      evaluated       |-> [by |-> "none",
                           track |-> [b \in Bones |-> NewBone(b).track],
                           parents |-> <<>>],
      error           |-> FALSE ]

\* bpy.context.scene.frame_set(bpy.context.scene.frame_current): the scene is
\* evaluated with the constraints and parents it has now.  evaluated holds
\* what the last evaluation saw: the rigid-track constraint of every bone and
\* the parent of every transient object; by names the method that asked for it
frame_set(s, by) ==
    IF s.error THEN s
    ELSE [s EXCEPT !.evaluated =
             [by |-> by,
              track |-> [b \in Bones |-> s.bones[b].track],
              parents |-> [k \in DOMAIN s.temps |-> s.temps[k].parent]]]

\* a dict lookup d.get(k, None) / k in d, and d[k] = v
HasKey(dict, k) == k \in DOMAIN dict.d

Put(dict, k, v) == [dict EXCEPT !.d = (k :> v) @@ dict.d]

\* left fold of Op over a sequence: the body of a Python for loop
FoldSeq(Op(_, _), s0, seq) ==
    LET f[k \in 0..Len(seq)] == IF k = 0 THEN s0 ELSE Op(f[k - 1], seq[k])
    IN  f[Len(seq)]

\* the elements of a finite set of integers in increasing order: the order in
\* which obj.children lists the objects
RECURSIVE Sorted(_)
Sorted(S) ==
    IF S = {} THEN <<>>
    ELSE LET m == CHOOSE x \in S : \A y \in S : x <= y
         IN  <<m>> \o Sorted(S \ {m})

\* ------------------------------------------------------------ enumeration
\* filter(isRigidBodyObject, FnModel.all_children(self.armature()))
ArmatureBodies(s) == Sorted({i \in Bodies : s.bodies[i].parent = "arm"})

\* filter(isRigidBodyObject, FnModel.all_children(self.rigidGroupObject()))
GroupBodies(s) == Sorted({i \in Bodies : s.bodies[i].parent = "rigid_grp"})

\* Model.rigidBodies(), materialised at once (list(self.rigidBodies()))
rigidBodies(s) ==
    IF s.is_built THEN ArmatureBodies(s) \o GroupBodies(s) ELSE GroupBodies(s)

\* Model.joints()
joints(s) == Sorted(Joints)

\* isTemporaryObject over all_children(rigidGroupObject) and, unless
\* rigid_track_only, all_children(temporaryGroupObject): the indices of the
\* transient objects that are reachable from those two groups.  A transient
\* object is parented to the temporary group (parent 0) or to a rigid body.
temporaryObjects(s) ==
    {k \in DOMAIN s.temps :
        \/ s.temps[k].parent = 0
        \/ /\ s.temps[k].parent \in Bodies
           /\ s.bodies[s.temps[k].parent].parent = "rigid_grp"}

\* ---------------------------------------------------- mmd_rigid.bone property
\* value read from obj.mmd_rigid.bone: the bone of the parent relation when
\* there is one naming a bone, else the stored property
get_bone(o) ==
    IF Len(o.relation) > 0 /\ o.relation[1].subtarget \in Bones
    THEN o.relation[1].subtarget
    ELSE o.bone

\* obj.mmd_rigid.bone = value: creates the muted 'mmd_tools_rigid_parent'
\* relation when it is missing, points it at the bone and stores the name
set_bone(o, value) ==
    LET name == IF value \in Bones THEN value ELSE NoBone
        rel  == IF Len(o.relation) > 0 THEN o.relation[1] ELSE Relation(NoBone)
    IN  [o EXCEPT !.relation = Some([rel EXCEPT !.subtarget = name]),
                  !.bone = name]

\* --------------------------------------------------- transform backup store
\* mutant of backupTransforms: a key that exists is written again
backupTransforms_Overwrite(o) ==
    [o EXCEPT !.backup_location = Some(o.location),
              !.backup_rotation = Some(o.rotation)]

\* Model.__backupTransforms: a key that exists is left alone
backupTransforms(o) ==
    [o EXCEPT
       !.backup_location = IF Len(@) > 0 THEN @ ELSE Some(o.location),
       !.backup_rotation = IF Len(@) > 0 THEN @ ELSE Some(o.rotation)]

\* mutant of restoreTransforms: the rotation is not written back
restoreTransforms_LocationOnly(o) ==
    [o EXCEPT
       !.location = IF Len(o.backup_location) > 0 THEN o.backup_location[1] ELSE @,
       !.backup_location = None,
       !.backup_rotation = None]

\* mutant of restoreTransforms: without a saved value the default is written
restoreTransforms_Default(o) ==
    [o EXCEPT
       !.location = IF Len(o.backup_location) > 0 THEN o.backup_location[1] ELSE Vec(0, 0),
       !.backup_location = None,
       !.rotation = IF Len(o.backup_rotation) > 0 THEN o.backup_rotation[1] ELSE 0,
       !.backup_rotation = None]

\* Model.__restoreTransforms: writes the saved value back and deletes the key
restoreTransforms(o) ==
    [o EXCEPT
       !.location = IF Len(o.backup_location) > 0 THEN o.backup_location[1] ELSE @,
       !.backup_location = None,
       !.rotation = IF Len(o.backup_rotation) > 0 THEN o.backup_rotation[1] ELSE @,
       !.backup_rotation = None]

\* -------------------------------------------------------------------- clean
\* mutant of cleanBones: a rigid-track constraint that is still muted stays
cleanBones_SkipMuted(s) ==
    [s EXCEPT !.bones = [b \in Bones |->
        [s.bones[b] EXCEPT !.track = IF Len(@) > 0 /\ @[1].mute THEN @ ELSE None]]]

\* clean(), first loop: remove the rigid-track constraint of every pose bone
cleanBones(s) ==
    [s EXCEPT !.bones = [b \in Bones |-> [s.bones[b] EXCEPT !.track = None]]]

\* unmute (mute = FALSE) or mute every IK constraint of a pose bone
SetIKMute(s, b, mute) ==
    [s EXCEPT !.bones[b].ik = [k \in DOMAIN @ |-> [@[k] EXCEPT !.mute = mute]]]

\* mutant of cleanRigid: a STATIC body is not parented back to the group
cleanRigid_NoReparent(s, i) ==
    LET o0  == s.bodies[i]
        o1  == IF Len(o0.relation) = 0 THEN set_bone(o0, get_bone(o0)) ELSE o0
        o2  == [o1 EXCEPT !.relation[1].mute = TRUE]
        bn  == o2.relation[1].subtarget
        s1  == IF o2.type \in {MODE_DYNAMIC, MODE_DYNAMIC_BONE} /\ bn # NoBone
               THEN SetIKMute(s, bn, FALSE)
               ELSE s
    IN  [s1 EXCEPT !.bodies[i] = restoreTransforms(o2)]

\* mutant of cleanRigid: the relation made for a body that lost it names no
\* bone
cleanRigid_ForgetBone(s, i) ==
    LET o0  == s.bodies[i]
        o1  == IF Len(o0.relation) = 0 THEN set_bone(o0, NoBone) ELSE o0
        o2  == [o1 EXCEPT !.relation[1].mute = TRUE]
        o3  == IF o2.type = MODE_STATIC
               THEN [o2 EXCEPT !.parent_type = "OBJECT", !.parent = "rigid_grp"]
               ELSE o2
        bn  == o2.relation[1].subtarget
        s1  == IF o2.type \in {MODE_DYNAMIC, MODE_DYNAMIC_BONE} /\ bn # NoBone
               THEN SetIKMute(s, bn, FALSE)
               ELSE s
    IN  [s1 EXCEPT !.bodies[i] = restoreTransforms(o3)]

\* clean(), body of the loop over the rigid bodies
cleanRigid(s, i) ==
    LET o0  == s.bodies[i]
        o1  == IF Len(o0.relation) = 0 THEN set_bone(o0, get_bone(o0)) ELSE o0
        o2  == [o1 EXCEPT !.relation[1].mute = TRUE]
        o3  == IF o2.type = MODE_STATIC
               THEN [o2 EXCEPT !.parent_type = "OBJECT", !.parent = "rigid_grp"]
               ELSE o2
        bn  == o2.relation[1].subtarget
        s1  == IF o2.type \in {MODE_DYNAMIC, MODE_DYNAMIC_BONE} /\ bn # NoBone
               THEN SetIKMute(s, bn, FALSE)
               ELSE s
    IN  [s1 EXCEPT !.bodies[i] = restoreTransforms(o3)]

\* clean(), the loop over self.rigidBodies(): the chained generators list the
\* children of the armature first and read the children of the rigid-body
\* group only when the first generator is exhausted
cleanRigids(s) ==
    LET s1 == IF s.is_built THEN FoldSeq(cleanRigid, s, ArmatureBodies(s)) ELSE s
    IN  FoldSeq(cleanRigid, s1, GroupBodies(s1))

\* clean(), the loop over self.joints()
cleanJoint(s, j) == [s EXCEPT !.joints[j] = restoreTransforms(@)]

\* mutant of removeTemporaryObjects: only the children of the rigid-body group
\* are removed (temporaryObjects(rigid_track_only=True))
removeTemporaryObjects_TrackOnly(s) ==
    LET gone == {k \in temporaryObjects(s) : s.temps[k].parent # 0}
        keep == Sorted(DOMAIN s.temps \ gone)
    IN  [s EXCEPT !.temps = [k \in 1..Len(keep) |-> s.temps[keep[k]]],
                  !.temporary_grp = TRUE]

\* Model.__removeTemporaryObjects (bpy.ops.object.delete of temporaryObjects());
\* temporaryObjects() calls temporaryGroupObject(), which creates the group
removeTemporaryObjects(s) ==
    LET gone == temporaryObjects(s)
        keep == Sorted(DOMAIN s.temps \ gone)
    IN  [s EXCEPT !.temps = [k \in 1..Len(keep) |-> s.temps[keep[k]]],
                  !.temporary_grp = TRUE]

\* Model.clean
clean(s) ==
    LET s1 == cleanBones(s)
        s2 == cleanRigids(s1)
        s3 == FoldSeq(cleanJoint, s2, joints(s2))
        s4 == removeTemporaryObjects(s3)
        s5 == frame_set(s4, "clean")
    IN  [s5 EXCEPT !.is_built = FALSE]

\* ----------------------------------------------------------------- preBuild
\* mutant of preBuildRigid: a body of any kind without bone joins no_parents
preBuildRigid_AnyKind(a, i) ==
    LET s  == a.s
        o1 == backupTransforms(s.bodies[i])
    IN  IF s.error THEN a
        ELSE IF Len(o1.relation) = 0
        THEN [a EXCEPT !.s = [s EXCEPT !.bodies[i] = o1, !.error = TRUE]]
        ELSE
          LET o2 == [o1 EXCEPT !.relation[1].mute = TRUE]
              bn == o2.relation[1].subtarget
              s1 == [s EXCEPT !.bodies[i] = o2]
          IN  IF o2.type \in {MODE_DYNAMIC, MODE_DYNAMIC_BONE}
              THEN IF bn # NoBone
                   THEN [a EXCEPT !.s = SetIKMute(s1, bn, TRUE)]
                   ELSE [s |-> s1, no_parents |-> a.no_parents \cup {i}]
              ELSE IF bn # NoBone
                   THEN [a EXCEPT !.s = s1]
                   ELSE [s |-> s1, no_parents |-> a.no_parents \cup {i}]

\* __preBuild, body of the loop over the rigid bodies; a is [s, no_parents].
\* i.constraints['mmd_tools_rigid_parent'] raises KeyError when the relation is
\* missing (after the backup was taken).
preBuildRigid(a, i) ==
    LET s  == a.s
        o1 == backupTransforms(s.bodies[i])
    IN  IF s.error THEN a
        ELSE IF Len(o1.relation) = 0
        THEN [a EXCEPT !.s = [s EXCEPT !.bodies[i] = o1, !.error = TRUE]]
        ELSE
          LET o2 == [o1 EXCEPT !.relation[1].mute = TRUE]
              bn == o2.relation[1].subtarget
              s1 == [s EXCEPT !.bodies[i] = o2]
          IN  IF o2.type \in {MODE_DYNAMIC, MODE_DYNAMIC_BONE}
              THEN IF bn # NoBone
                   THEN [a EXCEPT !.s = SetIKMute(s1, bn, TRUE)]
                   ELSE [s |-> s1, no_parents |-> a.no_parents \cup {i}]
              ELSE [a EXCEPT !.s = s1]

\* self.__fake_parent_map.setdefault(anchor, []).append(child)
AppendFakeChild(s, anchor, child) ==
    LET old == IF HasKey(s.fake_parent_map, anchor)
               THEN s.fake_parent_map.d[anchor] ELSE <<>>
    IN  [s EXCEPT !.fake_parent_map = Put(@, anchor, Append(old, child))]

\* mutant of preBuildJoint: an orphan already claimed is registered again
preBuildJoint_Reclaim(a, j) ==
    LET s    == a.s
        s1   == [s EXCEPT !.joints[j] = backupTransforms(@)]
        obj1 == s.joints[j].object1
        obj2 == s.joints[j].object2
    IN  IF s.error THEN a
        ELSE IF ~s.joints[j].rbc THEN [a EXCEPT !.s = s1]
        ELSE IF obj2 \in a.no_parents
        THEN IF obj1 \notin a.no_parents
             THEN [a EXCEPT !.s = AppendFakeChild(s1, obj1, obj2),
                            !.parented = @ \cup {obj2}]
             ELSE [a EXCEPT !.s = s1]
        ELSE IF obj1 \in a.no_parents
        THEN IF TRUE
             THEN [a EXCEPT !.s = AppendFakeChild(s1, obj2, obj1),
                            !.parented = @ \cup {obj1}]
             ELSE [a EXCEPT !.s = s1]
        ELSE [a EXCEPT !.s = s1]

\* __preBuild, body of the loop over the joints; a is [s, no_parents, parented]
preBuildJoint(a, j) ==
    LET s    == a.s
        s1   == [s EXCEPT !.joints[j] = backupTransforms(@)]
        obj1 == s.joints[j].object1
        obj2 == s.joints[j].object2
    IN  IF s.error THEN a
        ELSE IF ~s.joints[j].rbc THEN [a EXCEPT !.s = s1]
        ELSE IF obj2 \in a.no_parents
        THEN IF obj1 \notin a.no_parents /\ obj2 \notin a.parented
             THEN [a EXCEPT !.s = AppendFakeChild(s1, obj1, obj2),
                            !.parented = @ \cup {obj2}]
             ELSE [a EXCEPT !.s = s1]
        ELSE IF obj1 \in a.no_parents
        THEN IF obj1 \notin a.parented
             THEN [a EXCEPT !.s = AppendFakeChild(s1, obj2, obj1),
                            !.parented = @ \cup {obj1}]
             ELSE [a EXCEPT !.s = s1]
        ELSE [a EXCEPT !.s = s1]

\* Model.__preBuild
preBuild(s) ==
    LET s0 == [s EXCEPT !.fake_parent_map = EmptyDict,
                        !.rigid_body_matrix_map = EmptyDict,
                        !.empty_parent_map = EmptyDict]
        a1 == FoldSeq(preBuildRigid, [s |-> s0, no_parents |-> {}], rigidBodies(s0))
        s1 == frame_set(a1.s, "__preBuild")
        a2 == FoldSeq(preBuildJoint,
                      [s |-> s1, no_parents |-> a1.no_parents, parented |-> {}],
                      joints(s1))
    IN  IF s.error THEN s ELSE a2.s

\* __preBuild: the list no_parents when the loop over the rigid bodies ends
no_parents(s) ==
    LET s0 == [s EXCEPT !.fake_parent_map = EmptyDict,
                        !.rigid_body_matrix_map = EmptyDict,
                        !.empty_parent_map = EmptyDict]
    IN  FoldSeq(preBuildRigid, [s |-> s0, no_parents |-> {}], rigidBodies(s0)).no_parents

\* -------------------------------------------------------------- updateRigid
\* m = matmul(target_bone.matrix, target_bone.bone.matrix_local.inverted())
BoneRelativeMatrix(b) == matmul(BoneMatrix(b), inverted(BoneRest(b)))

\* t, r, s = matmul(m, obj.matrix_local).decompose(); obj.location = t;
\* obj.rotation_euler = r.to_euler(obj.rotation_mode)
ApplyMatrix(m, o) ==
    LET tr == decompose(matmul(m, matrix_local(o)))
    IN  [o EXCEPT !.location = tr.t, !.rotation = tr.r]

\* mutant of updateFakeChildren: the matrices are multiplied the other way
updateFakeChildren_Reversed(s, i, m) ==
    LET move(t, c) ==
            LET tr == decompose(matmul(matrix_local(t.bodies[c]), m))
            IN  [t EXCEPT !.bodies[c].location = tr.t, !.bodies[c].rotation = tr.r]
    IN  IF HasKey(s.fake_parent_map, i)
        THEN FoldSeq(move, s, s.fake_parent_map.d[i])
        ELSE s

\* updateRigid: the loop over the fake children of rigid_obj
updateFakeChildren(s, i, m) ==
    LET move(t, c) == [t EXCEPT !.bodies[c] = ApplyMatrix(m, @)]
    IN  IF HasKey(s.fake_parent_map, i)
        THEN FoldSeq(move, s, s.fake_parent_map.d[i])
        ELSE s

\* mutant of updateStatic: the world matrix read before the re-parenting is
\* written back unchanged
updateStatic_KeepWorld(s, i, bn) ==
    LET o     == s.bodies[i]
        m     == BoneRelativeMatrix(bn)
        world == matrix_world(o)
        o1    == [o EXCEPT !.parent = "arm", !.parent_type = "BONE",
                           !.parent_bone = bn]
        tr    == decompose(matmul(inverted(ParentWorld(o1)), world))
        o2    == [o1 EXCEPT !.location = tr.t, !.rotation = tr.r]
        s1    == [s EXCEPT !.rigid_body_matrix_map = Put(@, i, m),
                           !.bodies[i] = o2]
    IN  updateFakeChildren(s1, i, m)

\* updateRigid, STATIC branch: bone parenting that keeps the matrix computed
\* from the bone-relative matrix, then the fake children
updateStatic(s, i, bn) ==
    LET o     == s.bodies[i]
        m     == BoneRelativeMatrix(bn)
        to_matrix_world == matmul(matrix_world(o), inverted(matrix_local(o)))
        world == matmul(to_matrix_world, matmul(m, matrix_local(o)))
        o1    == [o EXCEPT !.parent = "arm", !.parent_type = "BONE",
                           !.parent_bone = bn]
        tr    == decompose(matmul(inverted(ParentWorld(o1)), world))
        o2    == [o1 EXCEPT !.location = tr.t, !.rotation = tr.r]
        s1    == [s EXCEPT !.rigid_body_matrix_map = Put(@, i, m),
                           !.bodies[i] = o2]
    IN  updateFakeChildren(s1, i, m)

\* a transient object: mmd_type, parent (0: the temporary group, else a rigid
\* body), world matrix and, for a non-collision constraint, its two bodies
TempObject(type, parent, world, o1, o2) ==
    [mmd_type |-> type, parent |-> parent, matrix_world |-> world,
     object1 |-> o1, object2 |-> o2]

\* const_type = ('COPY_TRANSFORMS', 'COPY_ROTATION')[rigid_type-1]
TrackConstraintType(type) ==
    IF type = MODE_DYNAMIC THEN "COPY_TRANSFORMS" ELSE "COPY_ROTATION"

\* mutant of DetachRelation: the stored bone name is cleared
DetachRelation_Clear(o, bn) == [set_bone(o, NoBone) EXCEPT !.relation = None]

\* rigid_obj.mmd_rigid.bone = bone_name; rigid_obj.constraints.remove(relation)
DetachRelation(o, bn) == [set_bone(o, bn) EXCEPT !.relation = None]

\* mutants of TakesOver: the comparison turned round, and a tie taking over
TakesOver_Lighter(o, ori) == ori.rigid_body /\ o.mass < ori.mass

TakesOver_OnTie(o, ori) == ori.rigid_body /\ o.mass >= ori.mass

\* the owner comparison of updateRigid: ori_rb and rb.mass > ori_rb.mass
TakesOver(o, ori) == ori.rigid_body /\ o.mass > ori.mass

\* mutant of updateTrack: a transfer of ownership gives the constraint the
\* kind of the new owner
updateTrack_Retype(s, i, bn) ==
    LET o == s.bodies[i]
    IN  IF Len(s.bones[bn].track) = 0
        THEN
          LET empty == Len(s.temps) + 1
          IN  [s EXCEPT
                 !.temps = Append(@, TempObject("TRACK_TARGET", 0, BoneMatrix(bn), 0, 0)),
                 !.temporary_grp = TRUE,
                 !.bodies[i] = DetachRelation(o, bn),
                 !.empty_parent_map = Put(@, empty, i),
                 !.bones[bn].track =
                     Some([type |-> TrackConstraintType(o.type), mute |-> TRUE,
                           target |-> empty])]
        ELSE
          LET empty == s.bones[bn].track[1].target
          IN  IF ~HasKey(s.empty_parent_map, empty)
              THEN [s EXCEPT !.error = TRUE]
              ELSE
                LET ori == s.empty_parent_map.d[empty]
                IN  IF TakesOver(o, s.bodies[ori])
                    THEN
                      LET s1 == [s EXCEPT !.bodies[i] = DetachRelation(o, bn),
                                          !.empty_parent_map = Put(@, empty, i)]
                      IN  [s1 EXCEPT !.bodies[ori] = set_bone(@, bn),
                                     !.bones[bn].track[1].type =
                                         TrackConstraintType(o.type)]
                    ELSE s

\* mutant of updateTrack: a proxy and a constraint are made for every dynamic
\* body, whether the bone has a rigid-track constraint or not
updateTrack_AlwaysNew(s, i, bn) ==
    LET o == s.bodies[i]
        empty == Len(s.temps) + 1
    IN  [s EXCEPT
           !.temps = Append(@, TempObject("TRACK_TARGET", 0, BoneMatrix(bn), 0, 0)),
           !.temporary_grp = TRUE,
           !.bodies[i] = DetachRelation(o, bn),
           !.empty_parent_map = Put(@, empty, i),
           !.bones[bn].track =
               Some([type |-> TrackConstraintType(o.type), mute |-> TRUE,
                     target |-> empty])]

\* updateRigid, track-target part of the DYNAMIC / DYNAMIC_BONE branch
updateTrack(s, i, bn) ==
    LET o == s.bodies[i]
    IN  IF Len(s.bones[bn].track) = 0
        THEN
          LET empty == Len(s.temps) + 1
          IN  [s EXCEPT
                 !.temps = Append(@, TempObject("TRACK_TARGET", 0, BoneMatrix(bn), 0, 0)),
                 !.temporary_grp = TRUE,
                 !.bodies[i] = DetachRelation(o, bn),
                 !.empty_parent_map = Put(@, empty, i),
                 !.bones[bn].track =
                     Some([type |-> TrackConstraintType(o.type), mute |-> TRUE,
                           target |-> empty])]
        ELSE
          LET empty == s.bones[bn].track[1].target
          IN  IF ~HasKey(s.empty_parent_map, empty)
              THEN [s EXCEPT !.error = TRUE]
              ELSE
                LET ori == s.empty_parent_map.d[empty]
                IN  IF TakesOver(o, s.bodies[ori])
                    THEN
                      LET s1 == [s EXCEPT !.bodies[i] = DetachRelation(o, bn),
                                          !.empty_parent_map = Put(@, empty, i)]
                      IN  [s1 EXCEPT !.bodies[ori] = set_bone(@, bn)]
                    ELSE s

\* mutant of updateDynamic: the body is parented to the bone as a STATIC one
updateDynamic_Reparent(s, i, bn) ==
    LET m  == BoneRelativeMatrix(bn)
        s1 == [s EXCEPT !.rigid_body_matrix_map = Put(@, i, m),
                        !.bodies[i] = [ApplyMatrix(m, @) EXCEPT
                                          !.parent = "arm", !.parent_type = "BONE",
                                          !.parent_bone = bn]]
        s2 == updateFakeChildren(s1, i, m)
    IN  IF s.empty_parent_map.st # "dict"
        THEN [s2 EXCEPT !.error = TRUE]
        ELSE updateTrack(s2, i, bn)

\* updateRigid, DYNAMIC / DYNAMIC_BONE branch
updateDynamic(s, i, bn) ==
    LET m  == BoneRelativeMatrix(bn)
        s1 == [s EXCEPT !.rigid_body_matrix_map = Put(@, i, m),
                        !.bodies[i] = ApplyMatrix(m, @)]
        s2 == updateFakeChildren(s1, i, m)
    IN  IF s.empty_parent_map.st # "dict"
        THEN [s2 EXCEPT !.error = TRUE]
        ELSE updateTrack(s2, i, bn)

\* mutant of updateRigid: a body without rigid_body is not left alone
\* (rb.kinematic of None raises)
updateRigid_NoBindingCheck(s, i) ==
    LET o == s.bodies[i]
    IN  IF s.error THEN s
        ELSE IF ~o.rigid_body THEN [s EXCEPT !.error = TRUE]
        ELSE IF Len(o.relation) = 0 THEN [s EXCEPT !.error = TRUE]
        ELSE
          LET bn == o.relation[1].subtarget
              s1 == [s EXCEPT !.bodies[i].kinematic = (o.type = MODE_STATIC)]
              s2 == IF bn = NoBone THEN s1
                    ELSE IF s.rigid_body_matrix_map.st # "dict"
                         THEN [s1 EXCEPT !.error = TRUE]
                    ELSE IF s.fake_parent_map.st # "dict"
                         THEN [s1 EXCEPT !.error = TRUE]
                    ELSE IF o.type = MODE_STATIC THEN updateStatic(s1, i, bn)
                    ELSE updateDynamic(s1, i, bn)
          IN  IF s2.error THEN s2
              ELSE IF o.shape \notin Shapes THEN [s2 EXCEPT !.error = TRUE]
              ELSE [s2 EXCEPT !.bodies[i].collision_shape_set = TRUE]

\* Model.updateRigid(rigid_obj); the assignment rb.collision_shape = rigid.shape
\* raises for a shape that is not one of the collision shapes
updateRigid(s, i) ==
    LET o == s.bodies[i]
    IN  IF s.error \/ ~o.rigid_body THEN s
        ELSE IF Len(o.relation) = 0 THEN [s EXCEPT !.error = TRUE]
        ELSE
          LET bn == o.relation[1].subtarget
              s1 == [s EXCEPT !.bodies[i].kinematic = (o.type = MODE_STATIC)]
              s2 == IF bn = NoBone THEN s1
                    ELSE IF s.rigid_body_matrix_map.st # "dict"
                         THEN [s1 EXCEPT !.error = TRUE]
                    ELSE IF s.fake_parent_map.st # "dict"
                         THEN [s1 EXCEPT !.error = TRUE]
                    ELSE IF o.type = MODE_STATIC THEN updateStatic(s1, i, bn)
                    ELSE updateDynamic(s1, i, bn)
          IN  IF s2.error THEN s2
              ELSE IF o.shape \notin Shapes THEN [s2 EXCEPT !.error = TRUE]
              ELSE [s2 EXCEPT !.bodies[i].collision_shape_set = TRUE]

\* -------------------------------------------------------------- buildRigids
\* mutant of indexJoint: the first joint of a pair stays in the index
indexJoint_KeepFirst(a, j) ==
    LET jo == a.s.joints[j]
    IN  IF ~jo.rbc THEN a
        ELSE [s |-> [a.s EXCEPT !.joints[j].disable_collisions = FALSE],
              jointMap |-> a.jointMap @@ ({jo.object1, jo.object2} :> j)]

\* buildRigids: the loop that resets the flag of every joint with a constraint
\* and indexes it by its pair of bodies (a later joint replaces an earlier one)
indexJoint(a, j) ==
    LET jo == a.s.joints[j]
    IN  IF ~jo.rbc THEN a
        ELSE [s |-> [a.s EXCEPT !.joints[j].disable_collisions = FALSE],
              jointMap |-> ({jo.object1, jo.object2} :> j) @@ a.jointMap]

\* the (obj_a, obj_b) visited by the three nested loops, in their order:
\* obj_a over rigid_objects, n over the ignored groups of obj_a's mask,
\* obj_b over rigid_object_groups[n], obj_a itself skipped
VisitedPairs(s, rigid_objects) ==
    LET inGroup(n) == SelectSeq(rigid_objects, LAMBDA b : s.bodies[b].group = n)
        ofMask(a)  == FoldSeq(LAMBDA acc, n : acc \o inGroup(n), <<>>,
                              Sorted(s.bodies[a].mask))
        pairsOf(a) == LET bs == SelectSeq(ofMask(a), LAMBDA b : b # a)
                      IN  [k \in 1..Len(bs) |-> <<a, bs[k]>>]
    IN  FoldSeq(LAMBDA acc, a : acc \o pairsOf(a), <<>>, rigid_objects)

\* Model.__getRigidRange: length of the bounding-box diagonal
getRigidRange(o) == o.range

\* mutant of WithinRange: the bound itself counts as in range
WithinRange_Inclusive(oa, ob, scale) ==
    LET bound == scale * (oa.range + ob.range)
    IN  400 * LengthSq(VecSub(oa.location, ob.location)) <= bound * bound

\* distance < distance_of_ignore_collisions * (range_a + range_b) * 0.5, with
\* distance = (obj_a.location - obj_b.location).length; all factors >= 0, so
\* the comparison is made on the squares (lengths and scale are in tenths)
WithinRange(oa, ob, scale) ==
    LET bound == scale * (getRigidRange(oa) + getRigidRange(ob))
    IN  400 * LengthSq(VecSub(oa.location, ob.location)) < bound * bound

\* mutant of filterPair: a pair that was processed is processed again
filterPair_NoSeenCheck(a, p) ==
    LET pair == {p[1], p[2]}
    IN  IF pair \in DOMAIN a.jointMap
        THEN [a EXCEPT !.s.joints[a.jointMap[pair]].disable_collisions = TRUE,
                       !.pairs = @ \cup {pair}]
        ELSE IF 400 * LengthSq(VecSub(a.s.bodies[p[1]].location,
                                      a.s.bodies[p[2]].location))
                  < (a.scale * (a.s.bodies[p[1]].range + a.s.bodies[p[2]].range))
                    * (a.scale * (a.s.bodies[p[1]].range + a.s.bodies[p[2]].range))
        THEN [a EXCEPT !.table = Append(@, p), !.pairs = @ \cup {pair}]
        ELSE [a EXCEPT !.pairs = @ \cup {pair}]

\* buildRigids, body of the innermost loop; a is [s, jointMap, table, pairs]
filterPair(a, p) ==
    LET pair == {p[1], p[2]}
    IN  IF pair \in a.pairs THEN a
        ELSE IF pair \in DOMAIN a.jointMap
        THEN [a EXCEPT !.s.joints[a.jointMap[pair]].disable_collisions = TRUE,
                       !.pairs = @ \cup {pair}]
        ELSE IF WithinRange(a.s.bodies[p[1]], a.s.bodies[p[2]], a.scale)
        THEN [a EXCEPT !.table = Append(@, p), !.pairs = @ \cup {pair}]
        ELSE [a EXCEPT !.pairs = @ \cup {pair}]

\* bpyutils.duplicateObject(obj, total_len): a list of total_len objects
duplicateObject(total_len) == total_len

\* Model.__createNonCollisionConstraint
createNonCollisionConstraint(s, table) ==
    LET total_len == Len(table)
        count == IF duplicateObject(total_len) < total_len
                 THEN duplicateObject(total_len) ELSE total_len
        ncc(k) == TempObject("NON_COLLISION_CONSTRAINT", 0, Identity,
                             table[k][1], table[k][2])
    IN  IF total_len < 1 THEN s
        ELSE [s EXCEPT !.temps = @ \o [k \in 1..count |-> ncc(k)],
                       !.temporary_grp = TRUE]

\* buildRigids up to the loop over updateRigid: [s, jointMap, table, pairs]
collisionFilter(s, scale) ==
    LET rigid_objects == rigidBodies(s)
        a1 == FoldSeq(indexJoint, [s |-> s, jointMap |-> <<>>], joints(s))
    IN  FoldSeq(filterPair,
                [s |-> a1.s, jointMap |-> a1.jointMap, table |-> <<>>,
                 pairs |-> {}, scale |-> scale],
                VisitedPairs(a1.s, rigid_objects))

\* Model.buildRigids(distance_of_ignore_collisions)
buildRigids(s, scale) ==
    LET rigid_objects == rigidBodies(s)
        a  == collisionFilter(s, scale)
        s1 == FoldSeq(updateRigid, a.s, rigid_objects)
    IN  IF s.error THEN s
        ELSE IF s1.error THEN s1
        ELSE createNonCollisionConstraint(s1, a.table)

\* -------------------------------------------------------------- buildJoints
\* mutant of buildJoint: the matrix of endpoint 2 is looked up first
buildJoint_SecondFirst(s, j) ==
    LET jo == s.joints[j]
        mm == s.rigid_body_matrix_map
    IN  IF s.error \/ ~jo.rbc THEN s
        ELSE IF mm.st # "dict" THEN [s EXCEPT !.error = TRUE]
        ELSE IF HasKey(mm, jo.object2)
        THEN [s EXCEPT !.joints[j] = ApplyMatrix(mm.d[jo.object2], @)]
        ELSE IF HasKey(mm, jo.object1)
        THEN [s EXCEPT !.joints[j] = ApplyMatrix(mm.d[jo.object1], @)]
        ELSE s

\* buildJoints, body of the loop over the joints
buildJoint(s, j) ==
    LET jo == s.joints[j]
        mm == s.rigid_body_matrix_map
    IN  IF s.error \/ ~jo.rbc THEN s
        ELSE IF mm.st # "dict" THEN [s EXCEPT !.error = TRUE]
        ELSE IF HasKey(mm, jo.object1)
        THEN [s EXCEPT !.joints[j] = ApplyMatrix(mm.d[jo.object1], @)]
        ELSE IF HasKey(mm, jo.object2)
        THEN [s EXCEPT !.joints[j] = ApplyMatrix(mm.d[jo.object2], @)]
        ELSE s

\* Model.buildJoints
buildJoints(s) == FoldSeq(buildJoint, s, joints(s))

\* ---------------------------------------------------------------- postBuild
\* mutant of postBuild: the scene is evaluated last, after the proxies were
\* parented and the constraints unmuted
postBuild_EvaluateLast(s) ==
    LET epm == s.empty_parent_map
        s1  == [s EXCEPT !.fake_parent_map = NoDict,
                         !.rigid_body_matrix_map = NoDict]
        s2  == [s1 EXCEPT
                  !.temps = [k \in DOMAIN @ |->
                               IF HasKey(epm, k)
                               THEN [@[k] EXCEPT !.parent = epm.d[k]]
                               ELSE @[k]],
                  !.empty_parent_map = NoDict]
        unmute(tr) == [k \in DOMAIN tr |-> [tr[k] EXCEPT !.mute = FALSE]]
    IN  IF s.error THEN s
        ELSE IF epm.st # "dict" THEN [s1 EXCEPT !.error = TRUE]
        ELSE frame_set([s2 EXCEPT !.bones =
                           [b \in Bones |-> [@[b] EXCEPT !.track = unmute(@)]]],
                       "__postBuild")

\* __postBuild: parent every track-target proxy to its recorded owner, keeping
\* its world matrix, and unmute the rigid-track constraints
postBuild(s) ==
    LET epm == s.empty_parent_map
        s0  == [s EXCEPT !.fake_parent_map = NoDict,
                         !.rigid_body_matrix_map = NoDict]
        s1  == frame_set(s0, "__postBuild")
        s2  == [s1 EXCEPT
                  !.temps = [k \in DOMAIN @ |->
                               IF HasKey(epm, k)
                               THEN [@[k] EXCEPT !.parent = epm.d[k]]
                               ELSE @[k]],
                  !.empty_parent_map = NoDict]
        unmute(tr) == [k \in DOMAIN tr |-> [tr[k] EXCEPT !.mute = FALSE]]
    IN  IF s.error THEN s
        ELSE IF epm.st # "dict" THEN [s1 EXCEPT !.error = TRUE]
        ELSE [s2 EXCEPT !.bones = [b \in Bones |-> [@[b] EXCEPT !.track = unmute(@)]]]

\* mutant of buildBegin: no clean() on a rig that is already built
buildBegin_NoClean(s) == [s EXCEPT !.is_built = TRUE]

\* -------------------------------------------------------------------- build
\* Model.build up to __preBuild: the implied clean() and is_built = True
buildBegin(s) ==
    LET s1 == IF s.is_built THEN clean(s) ELSE s
    IN  [s1 EXCEPT !.is_built = TRUE]

\* Model.build, the whole call; an exception ends it where it is raised
build(s) ==
    LET r == postBuild(buildJoints(buildRigids(preBuild(buildBegin(s)),
                                               NonCollisionThreshold)))
    IN  [r EXCEPT !.error = FALSE]

\* --------------------------------------------------------------- the rigs
\* authored placement of body i and joint j
BodyLocation(i) == Vec(10 * i, 0)

BodyRotation(i) == i % 4

JointLocation(j) == Vec(5 * j, 5)

JointRotation(j) == (j + 1) % 4

\* bounding-box diagonal of body i, in tenths
BodyRange(i) == IF i = 3 THEN 40 ELSE 20

\* dynamics kind, bone target and mass of a body; the mass only matters for a
\* dynamic body with a bone target
AttachChoices ==
    {c \in [type : Modes, bone : {NoBone} \cup Bones, mass : Masses] :
        (c.type = MODE_STATIC \/ c.bone = NoBone) => c.mass = 1}

\* endpoints of a joint: no rigid_body_constraint, or an ordered pair of bodies
JointChoices ==
    {[rbc |-> FALSE, object1 |-> 1, object2 |-> 1]} \cup
    {[rbc |-> TRUE, object1 |-> p[1], object2 |-> p[2]] :
        p \in {q \in Bodies \X Bodies : q[1] # q[2]}}

\* the chain of joints 1-2, 3-2, ...: joint j links body j (j odd) or j+1
\* (j even) with its neighbour
ChainJoint(j) ==
    IF j + 1 \in Bodies
    THEN IF j % 2 = 1
         THEN [rbc |-> TRUE, object1 |-> j, object2 |-> j + 1]
         ELSE [rbc |-> TRUE, object1 |-> j + 1, object2 |-> j]
    ELSE [rbc |-> FALSE, object1 |-> 1, object2 |-> 1]

MkJoints(jc) ==
    [j \in Joints |-> NewJoint(jc[j].rbc, jc[j].object1, jc[j].object2,
                               JointLocation(j), JointRotation(j))]

\* family 1: every combination of kind, bone and mass, on the chain of joints;
\* body 1 ignores group 0, to which all bodies belong
TrackRigs ==
    {NewRig([i \in Bodies |->
               NewBody(c[i].type, c[i].bone, c[i].mass, 0,
                       IF i = 1 THEN {0} ELSE {}, BodyRange(i),
                       BodyLocation(i), BodyRotation(i))],
            MkJoints([j \in Joints |-> ChainJoint(j)])) :
        c \in [Bodies -> AttachChoices]}

\* family 2: every wiring of the joints; bodies 1 and 2 STATIC or DYNAMIC, with
\* bone 1 or without bone, every further body an orphan (DYNAMIC without bone)
\* or a STATIC body on bone 1
FakeChoices ==
    {c \in [Bodies -> AttachChoices] :
        \A i \in Bodies :
            /\ c[i].type # MODE_DYNAMIC_BONE /\ c[i].bone # 2 /\ c[i].mass = 1
            /\ i > 2 => (c[i].type = MODE_STATIC <=> c[i].bone # NoBone)}

FakeRigs ==
    {NewRig([i \in Bodies |->
               NewBody(c[i].type, c[i].bone, c[i].mass, 0,
                       IF i = 1 THEN {0} ELSE {}, BodyRange(i),
                       BodyLocation(i), BodyRotation(i))],
            MkJoints(jc)) :
        c \in FakeChoices, jc \in [Joints -> JointChoices]}

\* family 3: collision groups, masks and distances.  Body 1 sits at the
\* origin, body 2 at distance 2.9, 3.0 or 3.1 from it (the threshold of two
\* bodies of diagonal 2.0 is 3.0), every further body at distance 4.4 or 4.5
\* on the other axis (with a diagonal 4.0 the threshold is 4.5)
FilterLocations ==
    {l \in [Bodies -> [x : {0, 29, 30, 31}, y : {0, 44, 45}]] :
        \A i \in Bodies :
            /\ i = 1 => l[i] = Vec(0, 0)
            /\ i = 2 => l[i].y = 0 /\ l[i].x # 0
            /\ i > 2 => l[i].x = 0 /\ l[i].y # 0}

\* group and mask of a body: body 1 is in group 0 and has any mask, every
\* other body ignores group 0 or nothing, every body after the second is in
\* group 1
FilterChoices ==
    {c \in [Bodies -> [group : Groups, mask : SUBSET Groups]] :
        \A i \in Bodies :
            /\ i = 1 => c[i].group = 0
            /\ i > 1 => c[i].mask \subseteq {0}
            /\ i > 2 => c[i].group = 1}

\* joints of family 3: between body 1 and another body, the first joint
\* between bodies 1 and 2
FilterJoints ==
    {jc \in [Joints -> JointChoices] :
        \A j \in Joints :
            jc[j].rbc => jc[j].object1 = 1 /\ (j = 1 => jc[j].object2 = 2)}

FilterRigs ==
    {NewRig([i \in Bodies |->
               NewBody(MODE_STATIC, NoBone, 1, c[i].group, c[i].mask,
                       BodyRange(i), l[i], BodyRotation(i))],
            MkJoints(jc)) :
        c \in FilterChoices, l \in FilterLocations, jc \in FilterJoints}

\* family 4: kind, bone (bone 1 or none) and mass of every body on the chain of
\* joints; body k has a shape that is not a collision shape and body u has no
\* rigid-body binding (k = 0, u = 0: no such body)
BrokenChoices == {c \in AttachChoices : c.bone # 2 /\ c.type # MODE_DYNAMIC_BONE}

BrokenRigs ==
    {NewRig([i \in Bodies |->
               [NewBody(c[i].type, c[i].bone, c[i].mass, 0,
                        IF i = 1 THEN {0} ELSE {}, BodyRange(i),
                        BodyLocation(i), BodyRotation(i))
                  EXCEPT !.shape = IF i = k THEN "INVALID" ELSE @,
                         !.rigid_body = (i # u)]],
            MkJoints([j \in Joints |-> ChainJoint(j)])) :
        c \in [Bodies -> BrokenChoices], k \in 0..NumBodies, u \in 0..NumBodies}

\* family 5: objects that are not the root of a rig (mmd_type is not 'ROOT')
\* with a rig below them
ForeignRoots ==
    {[r EXCEPT !.mmd_type = t] :
        r \in {b \in BrokenRigs : \A i \in Bodies : b.bodies[i].mass = 1
                                                  /\ b.bodies[i].type = MODE_STATIC},
        t \in {"NONE", "RIGID_GRP_OBJ"}}

\* ------------------------------------------------------------ state machine
\* pc: "none" before the engine is constructed, the step of build() that runs
\*     next, "idle" between calls.
\* pre: the rig as it was when the last build() was called.
\* base: the rig as it was when build() was last called on an UNBUILT rig.
\* post: the rig as the last build() that returned, or raised, left it.
\* maps: the fake-parent map and the bone-relative matrix map as the last step
\*       of build() that held them left them.
\* hist: "new", "built" (the last call was a build() that completed),
\*       "cleaned" (the last call was a clean() right after such a build()),
\*       "restored" (the last call was a clean() right after a build() that
\*       raised), "recleaned" (any other clean()), "aborted" (a build() that
\*       raised),
\*       "rejected" (the constructor raised), "stepped" (the last call was a
\*       step called on its own).
\* arg: the last step called on its own, its argument, and the number of such
\*      calls so far.
\* ret: "returned" or "raised", how that call ended.
Init ==
    /\ rig \in TrackRigs \cup FakeRigs \cup FilterRigs \cup BrokenRigs \cup ForeignRoots
    /\ pc = "none"
    /\ pre = rig
    /\ base = rig
    /\ post = rig
    /\ maps = [fake |-> <<>>, matrix |-> <<>>]
    /\ hist = "new"
    /\ arg = [call |-> "none", param |-> 0, n |-> 0]
    /\ ret = "none"

\* mutant of __init__: the type of the root object is not looked at
__init___AnyObject(s) == s

\* Model.__init__(root_obj): ValueError for an object that is not an MMD root
__init__(s) == IF s.mmd_type # "ROOT" THEN [s EXCEPT !.error = TRUE] ELSE s

\* Model(root_obj): the engine exists ("idle") when the constructor returned;
\* without an instance neither build() nor clean() can be called
Construct ==
    /\ pc = "none"
    /\ hist = "new"
    /\ rig' = [__init__(rig) EXCEPT !.error = FALSE]
    /\ pc' = IF __init__(rig).error THEN "none" ELSE "idle"
    /\ hist' = IF __init__(rig).error THEN "rejected" ELSE "new"
    /\ UNCHANGED <<pre, base, post, maps, arg, ret>>

\* a step of build() ends the call when it raised
Advance(s, next) ==
    /\ rig' = [s EXCEPT !.error = FALSE]
    /\ pc' = IF s.error THEN "idle" ELSE next
    /\ hist' = IF s.error THEN "aborted" ELSE IF next = "idle" THEN "built" ELSE hist
    /\ post' = IF s.error \/ next = "idle" THEN [s EXCEPT !.error = FALSE] ELSE post
    /\ maps' = IF s.fake_parent_map.st = "dict" /\ s.rigid_body_matrix_map.st = "dict"
               THEN [fake |-> s.fake_parent_map.d, matrix |-> s.rigid_body_matrix_map.d]
               ELSE maps
    /\ UNCHANGED <<pre, base, arg, ret>>

\* build(): called between calls; clean() when already built, is_built = True
BuildBegin ==
    /\ pc = "idle"
    /\ rig' = buildBegin(rig)
    /\ pc' = "preBuild"
    /\ pre' = rig
    /\ base' = IF rig.is_built THEN base ELSE rig
    /\ hist' = "building"
    /\ UNCHANGED <<post, maps, arg, ret>>

\* build(): self.__preBuild()
PreBuild == pc = "preBuild" /\ Advance(preBuild(rig), "buildRigids")

\* build(): self.buildRigids(non_collision_threshold)
BuildRigids ==
    pc = "buildRigids" /\ Advance(buildRigids(rig, NonCollisionThreshold), "buildJoints")

\* build(): self.buildJoints()
BuildJoints == pc = "buildJoints" /\ Advance(buildJoints(rig), "postBuild")

\* build(): self.__postBuild()
PostBuild == pc = "postBuild" /\ Advance(postBuild(rig), "idle")

\* clean(), called between calls
Clean ==
    /\ pc = "idle"
    /\ rig' = clean(rig)
    /\ hist' = IF hist = "built" THEN "cleaned"
               ELSE IF hist = "aborted" THEN "restored"
               ELSE "recleaned"
    /\ UNCHANGED <<pc, pre, base, post, maps, arg, ret>>

Next ==
    Construct \/ BuildBegin \/ PreBuild \/ BuildRigids \/ BuildJoints \/ PostBuild \/ Clean

Spec == Init /\ [][Next]_vars

\* ------------------------------------------- the steps called on their own
\* updateRigid(body), buildRigids(scale) and buildJoints() are public methods:
\* a caller can invoke them between two calls of build() and clean()
\* the rigs the steps are called on: the rigs of family 4 with bodies of mass
\* 1, the first on bone 1, the last a DYNAMIC body without bone; the last
\* joint of the chain has a rigid_body_constraint or has lost it
StepBodies ==
    {r.bodies : r \in {b \in BrokenRigs :
        /\ \A i \in Bodies : b.bodies[i].mass = 1
        /\ b.bodies[1].bone = 1
        /\ b.bodies[NumBodies].bone = NoBone
        /\ b.bodies[NumBodies].type = MODE_DYNAMIC
        /\ b.bodies[1].shape \in Shapes
        /\ b.bodies[2].rigid_body}}

StepRigs ==
    {NewRig(bs, MkJoints([j \in Joints |->
                            [ChainJoint(j) EXCEPT !.rbc = @ /\ (j < NumJoints \/ bound)]])) :
        bs \in StepBodies, bound \in BOOLEAN}

StepInit ==
    /\ rig \in StepRigs
    /\ pc = "none"
    /\ pre = rig
    /\ base = rig
    /\ post = rig
    /\ maps = [fake |-> <<>>, matrix |-> <<>>]
    /\ hist = "new"
    /\ arg = [call |-> "none", param |-> 0, n |-> 0]
    /\ ret = "none"

\* the call of a step on its own: s is the rig as the step left it
Step(s, call) ==
    /\ pc = "idle"
    /\ arg.n < MaxSteps
    /\ rig' = [s EXCEPT !.error = FALSE]
    /\ arg' = [call |-> call[1], param |-> call[2], n |-> arg.n + 1]
    /\ ret' = IF s.error THEN "raised" ELSE "returned"
    /\ hist' = "stepped"
    /\ UNCHANGED <<pc, pre, base, post, maps>>

CallUpdateRigid == \E i \in Bodies : Step(updateRigid(rig, i), <<"updateRigid", i>>)

CallBuildRigids ==
    Step(buildRigids(rig, NonCollisionThreshold), <<"buildRigids", NonCollisionThreshold>>)

CallBuildJoints == Step(buildJoints(rig), <<"buildJoints", 0>>)

StepNext == Next \/ CallUpdateRigid \/ CallBuildRigids \/ CallBuildJoints

StepSpec == StepInit /\ [][StepNext]_vars

\* ----------------------------------------------------------------- claims
\* location and rotation of every rigid body and every joint of a rig
Transforms(s) ==
    [bodies |-> [i \in Bodies |-> <<s.bodies[i].location, s.bodies[i].rotation>>],
     joints |-> [j \in Joints |-> <<s.joints[j].location, s.joints[j].rotation>>]]

\* C1 as stated: after a build() that completed and a clean() right after it,
\* every rigid body and joint has the location and rotation it had
\* immediately before that build() -- for any rig, built or not.
C1_AsStated == hist = "cleaned" => Transforms(rig) = Transforms(pre)

\* C1 amended: the clean() after a completed build() restores the location and
\* rotation every rigid body and joint had when build() was last called on the
\* UNBUILT rig; that is the pose immediately before the build() when that
\* build() was called on an UNBUILT rig.
C1_RoundTrip ==
    hist = "cleaned" =>
        /\ Transforms(rig) = Transforms(base)
        /\ ~pre.is_built => Transforms(rig) = Transforms(pre)

\* a build() on an UNBUILT rig moved a body and a joint, and clean() has run
C1_Witness ==
    /\ hist = "cleaned"
    /\ ~pre.is_built
    /\ \E i \in Bodies : post.bodies[i].location # pre.bodies[i].location
    /\ \E j \in Joints : post.joints[j].rotation # pre.joints[j].rotation

\* what C2 lists beside the transforms: parent, parent relation and stored bone
\* target of every body, flag of every joint, mute flag of every IK
\* constraint, kinematic flag of every body, and the set of scene objects
SceneState(s) ==
    [parents   |-> [i \in Bodies |-> <<s.bodies[i].parent, s.bodies[i].parent_type>>],
     relations |-> [i \in Bodies |-> s.bodies[i].relation],
     targets   |-> [i \in Bodies |-> s.bodies[i].bone],
     flags     |-> [j \in Joints |-> s.joints[j].disable_collisions],
     ik        |-> [b \in Bones |-> s.bones[b].ik],
     kinematic |-> [i \in Bodies |-> s.bodies[i].kinematic],
     objects   |-> <<s.temps, s.temporary_grp>>]

\* C2 as stated: build() followed by clean() returns the scene to its exact
\* pre-build state: parents, parent relations, stored bone targets, joint
\* flags, IK mute flags, kinematic flags and the set of scene objects are what
\* they were before build().
C2_AsStated == hist = "cleaned" => SceneState(rig) = SceneState(pre)

\* the bones a DYNAMIC / DYNAMIC_BONE body of the rig targets
DynamicBones(s) ==
    {b \in Bones : \E i \in Bodies :
        /\ s.bodies[i].type \in {MODE_DYNAMIC, MODE_DYNAMIC_BONE}
        /\ get_bone(s.bodies[i]) = b}

\* C2 amended: build() on an UNBUILT rig followed by clean() restores every
\* rigid body's parent, parent relation and stored bone target and removes
\* every transient proxy and rigid-track constraint, but the scene is not the
\* pre-build scene: the joint flags and the kinematic flags keep the values
\* build() gave them, the IK constraints of the bones that dynamic bodies
\* target end up unmuted, and the temporary container group exists.
C2_RoundTrip ==
    (hist = "cleaned" /\ ~pre.is_built) =>
        /\ SceneState(rig).parents = SceneState(pre).parents
        /\ SceneState(rig).relations = SceneState(pre).relations
        /\ SceneState(rig).targets = SceneState(pre).targets
        /\ rig.temps = <<>>
        /\ \A b \in Bones : rig.bones[b].track = None
        /\ SceneState(rig).flags = SceneState(post).flags
        /\ SceneState(rig).kinematic = SceneState(post).kinematic
        /\ \A b \in DynamicBones(rig) : \A k \in DOMAIN rig.bones[b].ik :
              ~rig.bones[b].ik[k].mute
        /\ rig.temporary_grp

\* a build() on an UNBUILT rig re-parented a body, removed a parent relation,
\* created proxies and set a joint flag, and clean() has run
C2_Witness ==
    /\ hist = "cleaned"
    /\ ~pre.is_built
    /\ \E i \in Bodies : post.bodies[i].parent = "arm"
    /\ \E i \in Bodies : post.bodies[i].relation = None
    /\ Len(post.temps) > 1
    /\ \E j \in Joints : rig.joints[j].disable_collisions /\ ~pre.joints[j].disable_collisions

\* C3: build() on a BUILT rig ends in the state that clean() followed by
\* build() reaches from that rig.
C3_RepeatBuild ==
    (hist = "built" /\ pre.is_built) => rig = build(clean(pre))

\* a rebuild of a BUILT rig completed; it moved a body and holds proxies
C3_Witness ==
    /\ hist = "built"
    /\ pre.is_built
    /\ rig.temps # <<>>
    /\ \E i \in Bodies : rig.bodies[i].parent = "arm"
    /\ \E i \in Bodies : rig.bodies[i].location # base.bodies[i].location

\* the ephemeral state C4 is about
HasBackup(o) == o.backup_location # None \/ o.backup_rotation # None

Ephemeral(s) ==
    \/ \E i \in Bodies : HasBackup(s.bodies[i])
    \/ \E j \in Joints : HasBackup(s.joints[j])
    \/ s.temps # <<>>
    \/ \E b \in Bones : s.bones[b].track # None

\* C4: is_built is true from the start of build() on and false once clean()
\* has run; backups, track-target proxies, non-collision proxies and
\* rigid-track constraints exist only while is_built is true.
C4_BuiltState ==
    /\ pc \notin {"none", "idle"} => rig.is_built
    /\ hist = "built" => rig.is_built
    /\ hist \in {"cleaned", "recleaned", "restored"} => ~rig.is_built
    /\ ~rig.is_built => ~Ephemeral(rig)

\* clean() has run on a rig that held backups, both kinds of proxies and a
\* rigid-track constraint
C4_Witness ==
    /\ hist = "cleaned"
    /\ ~rig.is_built
    /\ \E i \in Bodies : HasBackup(post.bodies[i])
    /\ \E k \in DOMAIN post.temps : post.temps[k].mmd_type = "TRACK_TARGET"
    /\ \E k \in DOMAIN post.temps : post.temps[k].mmd_type = "NON_COLLISION_CONSTRAINT"
    /\ \E b \in Bones : post.bones[b].track # None

\* the DYNAMIC / DYNAMIC_BONE bodies with a rigid-body binding that target
\* bone b, read from the rig as it was before the build
Contenders(b) ==
    {i \in Bodies :
        /\ base.bodies[i].type \in {MODE_DYNAMIC, MODE_DYNAMIC_BONE}
        /\ base.bodies[i].rigid_body
        /\ base.bodies[i].relation # None
        /\ base.bodies[i].relation[1].subtarget = b}

\* the body the track-target proxy of bone b is parented to
ProxyOwners(s, b) ==
    {s.temps[k].parent : k \in {n \in DOMAIN s.temps :
        /\ s.temps[n].mmd_type = "TRACK_TARGET"
        /\ s.bones[b].track # None
        /\ s.bones[b].track[1].target = n}}

\* C5: when the contenders of a bone have pairwise different masses, after
\* build() the bone's track-target proxy is parented to the heaviest of them,
\* whatever their order of attachment.
C5_HeaviestOwns ==
    hist = "built" =>
        \A b \in Bones :
            (/\ Contenders(b) # {}
             /\ \A i, j \in Contenders(b) :
                   i # j => rig.bodies[i].mass # rig.bodies[j].mass)
            => \E w \in Contenders(b) :
                  /\ ProxyOwners(rig, b) = {w}
                  /\ \A i \in Contenders(b) : rig.bodies[i].mass <= rig.bodies[w].mass

\* two contenders of masses 1 and 2, the lighter attached first: the proxy was
\* created for the lighter one and went over to the heavier one
C5_Witness ==
    /\ hist = "built"
    /\ \E b \in Bones : \E i, j \in Contenders(b) :
          /\ i < j
          /\ rig.bodies[i].mass = 1 /\ rig.bodies[j].mass = 2
          /\ Cardinality(Contenders(b)) = 2
          /\ ProxyOwners(rig, b) = {j}

\* C6: among the contenders of maximal mass of a bone, the one attached first
\* (the bodies are attached in the order of rigidBodies(), which is the order
\* of their indices) owns the proxy after build().
C6_TieKeepsFirst ==
    hist = "built" =>
        \A b \in Bones :
            Contenders(b) # {} =>
                LET heaviest == {i \in Contenders(b) : \A j \in Contenders(b) :
                                    rig.bodies[j].mass <= rig.bodies[i].mass}
                    first == CHOOSE i \in heaviest : \A j \in heaviest : i <= j
                IN  ProxyOwners(rig, b) = {first}

\* two contenders of the same, maximal mass: the earlier one owns the proxy
C6_Witness ==
    /\ hist = "built"
    /\ \E b \in Bones : \E i, j \in Contenders(b) :
          /\ i < j
          /\ rig.bodies[i].mass = rig.bodies[j].mass
          /\ \A k \in Contenders(b) : rig.bodies[k].mass <= rig.bodies[i].mass
          /\ ProxyOwners(rig, b) = {i}

\* body a's mask marks body b's group as ignored
Ignores(s, a, b) == s.bodies[b].group \in s.bodies[a].mask

\* joint j has a constraint and connects the distinct bodies a and b
Connects(s, j, a, b) ==
    /\ s.joints[j].rbc
    /\ a # b
    /\ {s.joints[j].object1, s.joints[j].object2} = {a, b}

\* the joints connecting a and b
JointsOf(s, a, b) == {j \in Joints : Connects(s, j, a, b)}

\* the non-collision proxies of the pair a, b
ProxiesOf(s, a, b) ==
    {k \in DOMAIN s.temps :
        /\ s.temps[k].mmd_type = "NON_COLLISION_CONSTRAINT"
        /\ {s.temps[k].object1, s.temps[k].object2} = {a, b}}

\* the centre distance of a and b when buildRigids reads it is below
\* 1.5 * (diag(a) + diag(b)) / 2; lengths in tenths, compared by their squares
Near(a, b) ==
    LET v == VecSub(base.bodies[a].location, base.bodies[b].location)
        twiceBound == 3 * (base.bodies[a].range + base.bodies[b].range)
    IN  16 * LengthSq(v) < twiceBound * twiceBound

\* buildRigids has just run
AfterBuildRigids == pc = "buildJoints"

\* C7 as stated: after buildRigids every joint connecting A and B has its flag
\* set when A's mask ignores B's group or B's mask ignores A's group.
C7_AsStated ==
    AfterBuildRigids =>
        \A a, b \in Bodies : \A j \in JointsOf(rig, a, b) :
            (Ignores(rig, a, b) \/ Ignores(rig, b, a)) => rig.joints[j].disable_collisions

\* C7 amended: the last joint, in the order of joints(), that connects A and
\* B has its flag set when either mask ignores the other's group, whatever
\* the distance; the earlier joints connecting the same pair are left with
\* the flag false.
C7_JointPrecedence ==
    AfterBuildRigids =>
        \A a, b \in Bodies : \A j \in JointsOf(rig, a, b) :
            (Ignores(rig, a, b) \/ Ignores(rig, b, a)) =>
                (rig.joints[j].disable_collisions <=>
                    \A k \in JointsOf(rig, a, b) : k <= j)

\* two joints connect the same pair, one mask ignores the other group and the
\* bodies are out of range: only the later joint carries the flag
C7_Witness ==
    /\ AfterBuildRigids
    /\ \E a, b \in Bodies : \E j, k \in JointsOf(rig, a, b) :
          /\ j < k
          /\ Ignores(rig, a, b) /\ ~Ignores(rig, b, a)
          /\ ~Near(a, b)
          /\ rig.joints[k].disable_collisions /\ ~rig.joints[j].disable_collisions

\* C8: for distinct bodies without a joint between them, buildRigids creates a
\* non-collision proxy iff one mask ignores the other's group and the distance
\* is strictly below scale * (diag(A) + diag(B)) / 2.
C8_ImplicitThreshold ==
    AfterBuildRigids =>
        \A a, b \in Bodies :
            (a # b /\ JointsOf(rig, a, b) = {}) =>
                (ProxiesOf(rig, a, b) # {} <=>
                    ((Ignores(rig, a, b) \/ Ignores(rig, b, a)) /\ Near(a, b)))

\* bodies of diagonal 2.0 without joint, one ignoring the other: a proxy at
\* distance 2.9; the same with distance 3.1 or 3.0 and no proxy is C8_WitnessFar
C8_Witness ==
    /\ AfterBuildRigids
    /\ \E a, b \in Bodies :
          /\ JointsOf(rig, a, b) = {}
          /\ Ignores(rig, a, b)
          /\ base.bodies[a].range = 20 /\ base.bodies[b].range = 20
          /\ LengthSq(VecSub(base.bodies[a].location, base.bodies[b].location)) = 29 * 29
          /\ ProxiesOf(rig, a, b) # {}

C8_WitnessFar ==
    /\ AfterBuildRigids
    /\ \E a, b \in Bodies : \E d \in {30, 31} :
          /\ JointsOf(rig, a, b) = {}
          /\ Ignores(rig, a, b)
          /\ base.bodies[a].range = 20 /\ base.bodies[b].range = 20
          /\ LengthSq(VecSub(base.bodies[a].location, base.bodies[b].location)) = d * d
          /\ ProxiesOf(rig, a, b) = {}

\* the non-collision proxies of a rig
Proxies(s) ==
    {k \in DOMAIN s.temps : s.temps[k].mmd_type = "NON_COLLISION_CONSTRAINT"}

\* the unordered pairs buildRigids records for a proxy
ImplicitPairs ==
    {p \in SUBSET Bodies :
        \E a, b \in Bodies :
            /\ p = {a, b} /\ a # b
            /\ JointsOf(rig, a, b) = {}
            /\ Ignores(rig, a, b) \/ Ignores(rig, b, a)
            /\ Near(a, b)}

\* C9: after buildRigids no unordered pair has more than one non-collision
\* proxy, a pair with a joint has none, and there are as many proxies as
\* recorded implicit pairs.
C9_OnePerPair ==
    AfterBuildRigids =>
        /\ \A a, b \in Bodies : Cardinality(ProxiesOf(rig, a, b)) <= 1
        /\ \A a, b \in Bodies : JointsOf(rig, a, b) # {} => ProxiesOf(rig, a, b) = {}
        /\ Cardinality(Proxies(rig)) = Cardinality(ImplicitPairs)

\* both masks ignore the other's group, no joint, in range: one proxy; and
\* another pair is kept apart by a joint
C9_Witness ==
    /\ AfterBuildRigids
    /\ \E a, b \in Bodies :
          /\ a # b /\ Ignores(rig, a, b) /\ Ignores(rig, b, a)
          /\ JointsOf(rig, a, b) = {}
          /\ Cardinality(ProxiesOf(rig, a, b)) = 1
    /\ \E a, b \in Bodies :
          /\ JointsOf(rig, a, b) # {} /\ Ignores(rig, a, b) /\ Near(a, b)

\* C10: a fake child of an anchor with bone-relative matrix M ends build()
\* with the location and rotation of M times its original local matrix.
C10_FakeChild ==
    hist = "built" =>
        \A a \in DOMAIN maps.fake : \A n \in DOMAIN maps.fake[a] :
            a \in DOMAIN maps.matrix =>
                LET c  == maps.fake[a][n]
                    tr == decompose(matmul(maps.matrix[a],
                                           Basis(base.bodies[c].location,
                                                 base.bodies[c].rotation)))
                IN  /\ rig.bodies[c].location = tr.t
                    /\ rig.bodies[c].rotation = tr.r

\* an orphan attached before its anchor, and one attached after it, were moved
\* by the anchor's matrix, which is not the identity
C10_Witness ==
    /\ hist = "built"
    /\ \E a \in DOMAIN maps.fake : \E n \in DOMAIN maps.fake[a] :
          /\ a \in DOMAIN maps.matrix
          /\ maps.matrix[a] # Identity
          /\ maps.fake[a][n] < a
          /\ rig.bodies[maps.fake[a][n]].location # base.bodies[maps.fake[a][n]].location
          /\ \E m \in DOMAIN maps.fake[a] : maps.fake[a][m] > a

\* C11 as stated: updateRigid(body), buildRigids(scale) and buildJoints(),
\* called on their own -- on an UNBUILT rig, on a fresh engine or after a
\* build() that completed -- return without raising an error (on a rig whose
\* bodies all have a collision shape).
C11_AsStated ==
    (hist = "stepped" /\ \A i \in Bodies : rig.bodies[i].shape \in Shapes)
        => ret = "returned"

\* the rig as build() found it when the implied clean() had run
Started == buildBegin(pre)

\* every saved location and rotation of s is the one the object has in t
BackupsAre(s, t) ==
    /\ \A i \in Bodies :
          /\ Len(s.bodies[i].backup_location) > 0 =>
                s.bodies[i].backup_location[1] = t.bodies[i].location
          /\ Len(s.bodies[i].backup_rotation) > 0 =>
                s.bodies[i].backup_rotation[1] = t.bodies[i].rotation
    /\ \A j \in Joints :
          /\ Len(s.joints[j].backup_location) > 0 =>
                s.joints[j].backup_location[1] = t.joints[j].location
          /\ Len(s.joints[j].backup_rotation) > 0 =>
                s.joints[j].backup_rotation[1] = t.joints[j].rotation

\* C12: when build() raised, the backups saved so far hold the pre-build
\* location and rotation; the clean() that follows returns, puts every body
\* and joint that had a backup back to its pre-build location and rotation,
\* leaves no rigid-track constraint and no transient proxy, and the rig is
\* UNBUILT.
C12_AbortRestore ==
    /\ hist = "aborted" => (rig.is_built /\ post = rig /\ BackupsAre(rig, Started))
    /\ hist = "restored" =>
          /\ \A i \in Bodies : HasBackup(post.bodies[i]) =>
                /\ rig.bodies[i].location = Started.bodies[i].location
                /\ rig.bodies[i].rotation = Started.bodies[i].rotation
          /\ \A j \in Joints : HasBackup(post.joints[j]) =>
                /\ rig.joints[j].location = Started.joints[j].location
                /\ rig.joints[j].rotation = Started.joints[j].rotation
          /\ \A b \in Bones : rig.bones[b].track = None
          /\ rig.temps = <<>>
          /\ ~rig.is_built
          /\ ~rig.error

\* build() raised after it had moved a backed-up body, re-parented another
\* and created a track-target proxy with its muted rigid-track constraint;
\* clean() has run
C12_Witness ==
    /\ hist = "restored"
    /\ \E i \in Bodies :
          /\ HasBackup(post.bodies[i])
          /\ post.bodies[i].location # Started.bodies[i].location
    /\ \E i \in Bodies : post.bodies[i].parent = "arm"
    /\ \E j \in Joints : HasBackup(post.joints[j])
    /\ \E k \in DOMAIN post.temps : post.temps[k].mmd_type = "TRACK_TARGET"
    /\ \E b \in Bones : post.bones[b].track # None

\* build() raised in __preBuild, before every body was backed up, and clean()
\* has run
C12_WitnessPreBuild ==
    /\ hist = "restored"
    /\ \E i \in Bodies : HasBackup(post.bodies[i])
    /\ \E j \in Joints : ~HasBackup(post.joints[j])

\* the entries the three maps of the engine hold
MapEntries(s) ==
    {<<"fake_parent_map", k>> :
        k \in IF s.fake_parent_map.st = "dict" THEN DOMAIN s.fake_parent_map.d ELSE {}}
    \cup {<<"rigid_body_matrix_map", k>> :
        k \in IF s.rigid_body_matrix_map.st = "dict"
              THEN DOMAIN s.rigid_body_matrix_map.d ELSE {}}
    \cup {<<"empty_parent_map", k>> :
        k \in IF s.empty_parent_map.st = "dict" THEN DOMAIN s.empty_parent_map.d ELSE {}}

\* C13 as stated: once build() has returned or raised, and after clean(), the
\* fake-parent map, the bone-relative matrix map and the proxy-ownership map
\* hold no entry (they are null), so that no later call sees an entry of an
\* earlier build.
C13_AsStated ==
    (pc = "idle" /\ hist \in {"built", "aborted", "cleaned", "restored", "recleaned"})
        => MapEntries(rig) = {}

\* ------------------------------------------------ the transform backup store
\* __backupTransforms and __restoreTransforms applied to single objects, in
\* any order, with the objects moved in between (as the steps of build() move
\* them).  base holds, for every object, the location and rotation it had
\* when its backup was taken from an object without backup.
StoreRig ==
    NewRig([i \in Bodies |->
              NewBody(MODE_STATIC, NoBone, 1, 0, {}, BodyRange(i),
                      BodyLocation(i), BodyRotation(i))],
           MkJoints([j \in Joints |-> ChainJoint(j)]))

\* the objects the store is applied to: <<"bodies", i>> or <<"joints", j>>
StoreObjects == {<<"bodies", 1>>, <<"joints", 1>>}

\* the poses an object is moved to
StorePoses == {[location |-> Vec(x, 0), rotation |-> r] : x \in {0, 10}, r \in {0, 1}}

StoreInit ==
    /\ rig = StoreRig
    /\ pc = "store"
    /\ pre = rig
    /\ base = rig
    /\ post = rig
    /\ maps = [fake |-> <<>>, matrix |-> <<>>]
    /\ hist = "new"
    /\ arg = [call |-> "none", param |-> 0, n |-> 0]
    /\ ret = "none"

\* self.__backupTransforms(obj)
StoreBackup ==
    \E o \in StoreObjects :
        /\ pc = "store"
        /\ rig' = [rig EXCEPT ![o[1]][o[2]] = backupTransforms(@)]
        /\ base' = IF HasBackup(rig[o[1]][o[2]]) THEN base
                   ELSE [base EXCEPT ![o[1]][o[2]] = rig[o[1]][o[2]]]
        /\ hist' = IF HasBackup(rig[o[1]][o[2]]) THEN "kept" ELSE "saved"
        /\ UNCHANGED <<pc, pre, post, maps, arg, ret>>

\* obj.location = t; obj.rotation_euler = r
StoreMove ==
    \E o \in StoreObjects : \E p \in StorePoses :
        /\ pc = "store"
        /\ rig' = [rig EXCEPT ![o[1]][o[2]].location = p.location,
                              ![o[1]][o[2]].rotation = p.rotation]
        /\ hist' = "moved"
        /\ UNCHANGED <<pc, pre, base, post, maps, arg, ret>>

\* self.__restoreTransforms(obj)
StoreRestore ==
    \E o \in StoreObjects :
        /\ pc = "store"
        /\ rig' = [rig EXCEPT ![o[1]][o[2]] = restoreTransforms(@)]
        /\ hist' = "written back"
        /\ UNCHANGED <<pc, pre, base, post, maps, arg, ret>>

StoreNext == StoreBackup \/ StoreMove \/ StoreRestore

StoreSpec == StoreInit /\ [][StoreNext]_vars

\* C14: a backup that finds a saved location or rotation leaves it as it is:
\* whatever backups, moves and restores were applied, a saved value is the
\* location or rotation the object had when its backup was taken from an
\* object without backup.  (In Spec and StepSpec, where base is the rig as
\* build() last found it UNBUILT, the same formula says that across builds
\* the saved value is the pose of the UNBUILT rig.)
C14_BackupKeeps == BackupsAre(rig, base)

\* a further backup was applied to an object that holds a backup and has been
\* moved away from the saved location
C14_Witness ==
    /\ hist = "kept"
    /\ \E o \in StoreObjects :
          /\ HasBackup(rig[o[1]][o[2]])
          /\ rig[o[1]][o[2]].location # rig[o[1]][o[2]].backup_location[1]
          /\ rig[o[1]][o[2]].rotation # rig[o[1]][o[2]].backup_rotation[1]

\* some rigid body or joint of s holds a saved location or rotation
AnyBackup(s) ==
    \/ \E i \in Bodies : HasBackup(s.bodies[i])
    \/ \E j \in Joints : HasBackup(s.joints[j])

\* C15: a clean() on a rig none of whose bodies and joints holds a backup (an
\* UNBUILT rig, a second clean() in a row) changes no location and no
\* rotation, and after every clean() no body and no joint holds a backup.
C15_RestoreNoOp ==
    /\ [][(pc = "idle" /\ hist' \in {"cleaned", "restored", "recleaned"} /\ ~AnyBackup(rig))
            => Transforms(rig') = Transforms(rig)]_vars
    /\ [](hist \in {"cleaned", "restored", "recleaned"} => ~AnyBackup(rig))

\* a build() moved a body, the clean() after it put it back and consumed the
\* backups, and a second clean() has run
C15_Witness ==
    /\ hist = "recleaned"
    /\ post.is_built
    /\ AnyBackup(post)
    /\ \E i \in Bodies : post.bodies[i].location # rig.bodies[i].location
    /\ Transforms(rig) = Transforms(base)

\* C16: when clean() has returned, no bone carries a rigid-track constraint,
\* no track-target proxy and no non-collision proxy exists, every STATIC
\* rigid body is parented to the rigid-body group, and is_built is false.
C16_CleanPost ==
    hist \in {"cleaned", "restored", "recleaned"} =>
        /\ \A b \in Bones : rig.bones[b].track = None
        /\ rig.temps = <<>>
        /\ \A i \in Bodies : rig.bodies[i].type = MODE_STATIC =>
              (rig.bodies[i].parent = "rigid_grp" /\ rig.bodies[i].parent_type = "OBJECT")
        /\ ~rig.is_built

\* C17: updateRigid on a body without rigid-body binding returns and leaves
\* the rig as it is (kinematic flag, transform, parent, proxies, maps); a
\* joint without constraint binding contributes no fake child, and no step
\* changes its flag, its location or its rotation.
C17_MissingBinding ==
    /\ [][(hist' = "stepped" /\ arg'.call = "updateRigid"
            /\ ~rig.bodies[arg'.param].rigid_body)
           => (rig' = rig /\ ret' = "returned")]_vars
    /\ [][\A j \in Joints : ~rig.joints[j].rbc =>
             /\ rig'.joints[j].disable_collisions = rig.joints[j].disable_collisions
             /\ rig'.joints[j].location = rig.joints[j].location
             /\ rig'.joints[j].rotation = rig.joints[j].rotation]_vars
    /\ [](rig.fake_parent_map.st = "dict" =>
            \A a \in DOMAIN rig.fake_parent_map.d :
                \A n \in DOMAIN rig.fake_parent_map.d[a] :
                    JointsOf(rig, a, rig.fake_parent_map.d[a][n]) # {})

\* updateRigid was called on a body without rigid-body binding whose parent
\* relation names a bone, at a moment when the maps are dicts; and the rig has
\* a joint without constraint between an orphan and a body with a matrix
C17_Witness ==
    /\ hist = "stepped"
    /\ arg.call = "updateRigid"
    /\ ~rig.bodies[arg.param].rigid_body
    /\ rig.bodies[arg.param].relation # None
    /\ rig.bodies[arg.param].relation[1].subtarget # NoBone
    /\ rig.rigid_body_matrix_map.st = "dict"
    /\ \E j \in Joints :
          /\ ~rig.joints[j].rbc
          /\ rig.joints[j].object2 \in DOMAIN rig.rigid_body_matrix_map.d
          /\ rig.bodies[rig.joints[j].object1].bone = NoBone

\* C18: for a root object whose type is not ROOT the constructor raises: the
\* engine never exists, no step of build() or clean() runs, and the scene
\* stays as it was.
C18_RootOnly ==
    rig.mmd_type # "ROOT" =>
        /\ pc = "none"
        /\ hist \in {"new", "rejected"}
        /\ rig = pre

\* the constructor was called on an object that is not a root and raised
C18_Witness ==
    /\ hist = "rejected"
    /\ rig.mmd_type # "ROOT"
    /\ pc = "none"

\* ------------------------------------------------------- shape size extraction
\* getRigidBodySize(obj), a module-level function.  Lengths are in tenths and
\* every coordinate is an odd multiple of 10, so every extent is a multiple
\* of 20 and the division by two is exact.
Coords == {20 * k - 10 : k \in 0..MaxCoord}

ShapeNames == Shapes \cup {"INVALID"}

\* obj.mmd_type, obj.bound_box[0], obj.bound_box[6], obj.mmd_rigid.shape
ShapeObjects ==
    [mmd_type : {"RIGID_BODY", "JOINT"},
     corner0 : Coords \X Coords \X Coords,
     corner6 : Coords \X Coords \X Coords,
     shape : ShapeNames]

abs(n) == IF n < 0 THEN -n ELSE n

getRigidBodySize_CapsuleFromZ(obj) ==
    LET x0 == obj.corner0[1]
        y0 == obj.corner0[2]
        z0 == obj.corner0[3]
        x1 == obj.corner6[1]
        y1 == obj.corner6[2]
        z1 == obj.corner6[3]
    IN  IF obj.mmd_type # "RIGID_BODY"
        THEN [error |-> TRUE, size |-> <<>>]
        ELSE IF ~(x1 >= x0 /\ y1 >= y0 /\ z1 >= z0)
        THEN [error |-> TRUE, size |-> <<>>]
        ELSE IF obj.shape = "SPHERE"
        THEN [error |-> FALSE, size |-> <<(z1 - z0) \div 2, 0, 0>>]
        ELSE IF obj.shape = "BOX"
        THEN [error |-> FALSE,
              size |-> <<(x1 - x0) \div 2, (y1 - y0) \div 2, (z1 - z0) \div 2>>]
        ELSE IF obj.shape = "CAPSULE"
        THEN LET diameter == z1 - z0
                 radius == diameter \div 2
                 height == abs((x1 - x0) - diameter)
             IN  [error |-> FALSE, size |-> <<radius, height, 0>>]
        ELSE [error |-> TRUE, size |-> <<>>]

getRigidBodySize(obj) ==
    LET x0 == obj.corner0[1]
        y0 == obj.corner0[2]
        z0 == obj.corner0[3]
        x1 == obj.corner6[1]
        y1 == obj.corner6[2]
        z1 == obj.corner6[3]
    IN  IF obj.mmd_type # "RIGID_BODY"
        THEN [error |-> TRUE, size |-> <<>>]
        ELSE IF ~(x1 >= x0 /\ y1 >= y0 /\ z1 >= z0)
        THEN [error |-> TRUE, size |-> <<>>]
        ELSE IF obj.shape = "SPHERE"
        THEN [error |-> FALSE, size |-> <<(z1 - z0) \div 2, 0, 0>>]
        ELSE IF obj.shape = "BOX"
        THEN [error |-> FALSE,
              size |-> <<(x1 - x0) \div 2, (y1 - y0) \div 2, (z1 - z0) \div 2>>]
        ELSE IF obj.shape = "CAPSULE"
        THEN LET diameter == x1 - x0
                 radius == diameter \div 2
                 height == abs((z1 - z0) - diameter)
             IN  [error |-> FALSE, size |-> <<radius, height, 0>>]
        ELSE [error |-> TRUE, size |-> <<>>]

\* the function is applied to any object, before and apart from any build
ShapeInit ==
    /\ rig = StoreRig
    /\ pc = "shape"
    /\ pre = rig
    /\ base = rig
    /\ post = rig
    /\ maps = [fake |-> <<>>, matrix |-> <<>>]
    /\ hist = "new"
    /\ \E obj \in ShapeObjects :
           arg = [call |-> "getRigidBodySize", param |-> obj, n |-> 0]
    /\ ret = "none"

\* size = getRigidBodySize(obj)
CallGetRigidBodySize ==
    /\ pc = "shape"
    /\ hist = "new"
    /\ ret' = getRigidBodySize(arg.param)
    /\ hist' = "sized"
    /\ UNCHANGED <<rig, pc, pre, base, post, maps, arg>>

ShapeNext == CallGetRigidBodySize

ShapeSpec == ShapeInit /\ [][ShapeNext]_vars

\* the object is a rigid body whose corner 6 is not below corner 0 on any axis
ShapeInput(obj) ==
    /\ obj.mmd_type = "RIGID_BODY"
    /\ \A a \in 1..3 : obj.corner6[a] >= obj.corner0[a]

Extent(obj, a) == obj.corner6[a] - obj.corner0[a]

\* C19: for a rigid body with ordered corners 0 and 6, getRigidBodySize returns
\* for SPHERE a radius of half the z-extent, for BOX the three half-extents,
\* for CAPSULE a radius of half the x-extent and the height |z-extent -
\* x-extent|, and raises for any other shape; corners (-1,-1,-1) and (1,1,3)
\* give CAPSULE radius 1 and height 2, SPHERE radius 2, BOX (1,1,2).
C19_ShapeSize ==
    (hist = "sized" /\ ShapeInput(arg.param)) =>
        LET obj == arg.param
            example == obj.corner0 = <<-10, -10, -10>> /\ obj.corner6 = <<10, 10, 30>>
        IN  /\ obj.shape = "SPHERE" =>
                /\ ~ret.error
                /\ 2 * ret.size[1] = Extent(obj, 3)
                /\ example => ret.size[1] = 20
            /\ obj.shape = "BOX" =>
                /\ ~ret.error
                /\ \A a \in 1..3 : 2 * ret.size[a] = Extent(obj, a)
                /\ example => ret.size = <<10, 10, 20>>
            /\ obj.shape = "CAPSULE" =>
                /\ ~ret.error
                /\ 2 * ret.size[1] = Extent(obj, 1)
                /\ ret.size[2] >= 0
                /\ ret.size[2] \in {Extent(obj, 3) - Extent(obj, 1),
                                    Extent(obj, 1) - Extent(obj, 3)}
                /\ example => (ret.size[1] = 10 /\ ret.size[2] = 20)
            /\ obj.shape \notin {"SPHERE", "BOX", "CAPSULE"} => ret.error

\* the size of the capsule of the example was extracted
C19_Witness ==
    /\ hist = "sized"
    /\ arg.param.mmd_type = "RIGID_BODY"
    /\ arg.param.shape = "CAPSULE"
    /\ arg.param.corner0 = <<-10, -10, -10>>
    /\ arg.param.corner6 = <<10, 10, 30>>
    /\ ret = [error |-> FALSE, size |-> <<10, 20, 0>>]

\* a capsule wider than tall: the height is the absolute difference
C19_WitnessWide ==
    /\ hist = "sized"
    /\ arg.param.mmd_type = "RIGID_BODY"
    /\ arg.param.shape = "CAPSULE"
    /\ Extent(arg.param, 1) = 40
    /\ Extent(arg.param, 3) = 0
    /\ ret = [error |-> FALSE, size |-> <<20, 40, 0>>]

\* ------------------------------------------------------- the STATIC attach
\* the bodies that build() attaches to a bone as STATIC bodies: listed by
\* rigidBodies(), bound to the physics engine, STATIC, with a bone target
StaticAttached ==
    {i \in Bodies :
        /\ \E k \in 1..Len(rigidBodies(Started)) : rigidBodies(Started)[k] = i
        /\ Started.bodies[i].rigid_body
        /\ Started.bodies[i].type = MODE_STATIC
        /\ get_bone(Started.bodies[i]) \in Bones}

\* buildRigids has returned within build(): every body has been attached
AfterAttach == pc = "buildJoints" /\ hist = "building"

AfterPreBuild == pc = "buildRigids" /\ hist = "building"

\* the bodies __preBuild visits
Listed(s) == {rigidBodies(s)[k] : k \in 1..Len(rigidBodies(s))}

\* the bone target __preBuild reads: relation.subtarget
TargetOf(s, i) == s.bodies[i].relation[1].subtarget

\* the bodies without bone target among those __preBuild visits
Boneless(s) == {i \in Listed(s) : TargetOf(s, i) = NoBone}

\* the bodies registered as fake child of some anchor
FakeChildren(s) ==
    {s.fake_parent_map.d[a][n] :
        <<a, n>> \in {p \in (DOMAIN s.fake_parent_map.d) \X (1..NumBodies) :
                         p[2] \in DOMAIN s.fake_parent_map.d[p[1]]}}

\* joint j has a constraint and links a and b, in either order
Links(s, j, a, b) ==
    /\ s.joints[j].rbc
    /\ {s.joints[j].object1, s.joints[j].object2} = {a, b}
    /\ a # b

\* C21 as stated: every body without bone target, STATIC included, is an
\* orphan after Phase A, and becomes a fake child when a joint links it to a
\* body that is not an orphan.
C21_AsStated ==
    AfterPreBuild =>
        /\ no_parents(Started) = Boneless(Started)
        /\ \A o \in Boneless(Started) : \A a \in Bodies \ Boneless(Started) :
              (\E j \in Joints : Links(Started, j, a, o)) => o \in FakeChildren(rig)

\* C21: the orphans of Phase A are the DYNAMIC and DYNAMIC_BONE bodies without
\* bone target; each of them becomes a fake child when a joint links it to a
\* body that is not an orphan; a STATIC body without bone target is no orphan
\* and never a fake child.
C21_DynamicOrphans ==
    AfterPreBuild =>
        LET orphans == {i \in Boneless(Started) :
                           Started.bodies[i].type \in {MODE_DYNAMIC, MODE_DYNAMIC_BONE}}
        IN  /\ no_parents(Started) = orphans
            /\ \A o \in orphans : \A a \in Bodies \ orphans :
                  (\E j \in Joints : Links(Started, j, a, o)) => o \in FakeChildren(rig)
            /\ \A i \in Boneless(Started) :
                  Started.bodies[i].type = MODE_STATIC => i \notin FakeChildren(rig)

\* a STATIC body without bone target is linked to a body with a bone target and
\* stays out of the map, while a DYNAMIC one in the same rig is registered
C21_Witness ==
    /\ AfterPreBuild
    /\ \E i \in Boneless(Started) : \E a \in Listed(Started) \ Boneless(Started) :
          /\ Started.bodies[i].type = MODE_STATIC
          /\ \E j \in Joints : Links(Started, j, a, i)
          /\ i \notin FakeChildren(rig)
    /\ \E o \in no_parents(Started) : o \in FakeChildren(rig)

\* the places of body o in the fake-parent map: <<anchor, position>>
PlacesOf(s, o) ==
    {p \in (DOMAIN s.fake_parent_map.d) \X (1..NumBodies) :
        /\ p[2] \in DOMAIN s.fake_parent_map.d[p[1]]
        /\ s.fake_parent_map.d[p[1]][p[2]] = o}

\* the joints with a constraint that link orphan o to a body that is no orphan
ClaimingJoints(s, o) ==
    {j \in Joints : \E a \in Bodies \ no_parents(s) : Links(s, j, a, o)}

\* the endpoint of joint j that is not o
OtherEnd(s, j, o) ==
    IF s.joints[j].object1 = o THEN s.joints[j].object2 ELSE s.joints[j].object1

\* C22: after the fake-parent resolver every fake child is an orphan with one
\* place in the map, under one anchor; the anchor is no orphan and is the other
\* endpoint of the first joint, in the order of joints(), that links the orphan
\* to a body that is no orphan; an orphan without such a joint has no place.
C22_OneAnchor ==
    AfterPreBuild =>
        /\ FakeChildren(rig) \subseteq no_parents(Started)
        /\ DOMAIN rig.fake_parent_map.d \cap no_parents(Started) = {}
        /\ \A o \in no_parents(Started) :
              /\ Cardinality(PlacesOf(rig, o)) <= 1
              /\ ClaimingJoints(Started, o) = {} => PlacesOf(rig, o) = {}
              /\ ClaimingJoints(Started, o) # {} =>
                    LET first == CHOOSE j \in ClaimingJoints(Started, o) :
                                    \A k \in ClaimingJoints(Started, o) : j <= k
                    IN  \E p \in PlacesOf(rig, o) : p[1] = OtherEnd(Started, first, o)

\* an orphan linked to two different bodies that are no orphans, the later
\* joint first in its endpoints; it is registered under the first joint's body
C22_Witness ==
    /\ AfterPreBuild
    /\ \E o \in no_parents(Started) :
          /\ Cardinality(ClaimingJoints(Started, o)) >= 2
          /\ \E j, k \in ClaimingJoints(Started, o) :
                /\ j < k
                /\ OtherEnd(Started, j, o) # OtherEnd(Started, k, o)
                /\ PlacesOf(rig, o) = {<<OtherEnd(Started, j, o), 1>>}

\* ------------------------------------------------- ownership of a bone's proxy
\* the bodies whose bone target, as obj.mmd_rigid.bone reads it, is bone b
Targeting(s, b) == {i \in Bodies : get_bone(s.bodies[i]) = b}

\* C23 as stated: after build() the owner of a bone's track-target proxy has
\* its stored bone-target field cleared and no parent-relation constraint, and
\* every other body targeting the bone has one.
C23_AsStated ==
    hist = "built" =>
        \A b \in Bones : \A w \in ProxyOwners(rig, b) :
            /\ rig.bodies[w].bone = NoBone
            /\ rig.bodies[w].relation = None
            /\ \A i \in Targeting(rig, b) \ {w} : rig.bodies[i].relation # None

\* C23: after build() the owner of a bone's track-target proxy has no
\* parent-relation constraint and its stored bone-target field holds the
\* bone; every other body targeting the bone, a previous owner included, has
\* a parent-relation constraint on that bone and the bone in its stored field.
C23_OwnerDetached ==
    hist = "built" =>
        \A b \in Bones : \A w \in ProxyOwners(rig, b) :
            /\ rig.bodies[w].bone = b
            /\ rig.bodies[w].relation = None
            /\ w \in Targeting(rig, b)
            /\ \A i \in Targeting(rig, b) \ {w} :
                  /\ rig.bodies[i].relation # None
                  /\ rig.bodies[i].relation[1].subtarget = b
                  /\ rig.bodies[i].bone = b

\* a bone's proxy went from a lighter body, attached first, to a heavier one:
\* the previous owner has its relation again, the final owner has none
C23_Witness ==
    /\ hist = "built"
    /\ \E b \in Bones : \E i, j \in Contenders(b) :
          /\ i < j
          /\ rig.bodies[i].mass < rig.bodies[j].mass
          /\ Cardinality(Contenders(b)) = 2
          /\ ProxyOwners(rig, b) = {j}
          /\ rig.bodies[j].relation = None
          /\ rig.bodies[j].bone = b
          /\ rig.bodies[i].relation # None

\* the track-target proxies of s
TrackProxies(s) == {k \in DOMAIN s.temps : s.temps[k].mmd_type = "TRACK_TARGET"}

\* the bones whose rigid-track constraint points at proxy k
BonesOf(s, k) == {b \in Bones : s.bones[b].track # None /\ s.bones[b].track[1].target = k}

\* the owners recorded for proxy k: the entry of __empty_parent_map while the
\* map exists, the parent of the proxy once __postBuild has applied the map
RecordedOwners(s, k) ==
    IF s.empty_parent_map.st = "dict"
    THEN IF HasKey(s.empty_parent_map, k) THEN {s.empty_parent_map.d[k]} ELSE {}
    ELSE {s.temps[k].parent} \cap Bodies

\* every rigid-track constraint points at a proxy, every proxy is the target
\* of one bone's constraint and has one recorded owner, a DYNAMIC or
\* DYNAMIC_BONE body that targets this bone
TrackInv(s) ==
    /\ \A b \in Bones : s.bones[b].track # None => s.bones[b].track[1].target \in TrackProxies(s)
    /\ \A k \in TrackProxies(s) :
          /\ Cardinality(BonesOf(s, k)) = 1
          /\ Cardinality(RecordedOwners(s, k)) = 1
          /\ \A w \in RecordedOwners(s, k) : \A b \in BonesOf(s, k) :
                /\ s.bodies[w].type \in {MODE_DYNAMIC, MODE_DYNAMIC_BONE}
                /\ get_bone(s.bodies[w]) = b

\* buildRigids after the collision filter and the first n calls of updateRigid
AttachedUpTo(s, n) ==
    FoldSeq(updateRigid, collisionFilter(s, NonCollisionThreshold).s,
            SubSeq(rigidBodies(s), 1, n))

\* C24: at every point of a build, after every single attach included, and
\* after the build, each bone's rigid-track constraint points at a proxy of
\* its own, each track-target proxy has exactly one recorded owner, a DYNAMIC
\* or DYNAMIC_BONE body targeting that bone; __postBuild parents each proxy to
\* the owner recorded last.
C24_OneOwner ==
    /\ [](pc # "none" => TrackInv(rig))
    /\ [](pc = "buildRigids" =>
            \A n \in 0..Len(rigidBodies(rig)) :
                ~AttachedUpTo(rig, n).error => TrackInv(AttachedUpTo(rig, n)))
    /\ [][(pc = "postBuild" /\ hist' = "built") =>
            /\ TrackProxies(rig') = TrackProxies(rig)
            /\ \A k \in TrackProxies(rig) :
                  {rig'.temps[k].parent} = RecordedOwners(rig, k)]_vars

\* a build completed in which a proxy changed owner during the attach loop
\* and ended up parented to the last one
C24_Witness ==
    /\ hist = "built"
    /\ \E b \in Bones : \E k \in TrackProxies(rig) : \E i, j \in Contenders(b) :
          /\ BonesOf(rig, k) = {b}
          /\ i < j
          /\ rig.bodies[i].mass < rig.bodies[j].mass
          /\ rig.temps[k].parent = j
          /\ rig.bodies[j].type # rig.bodies[i].type

\* ------------------------------------------------------ the phases of build()
\* every rigid-track constraint of s is muted
TracksMuted(s) == \A b \in Bones : s.bones[b].track # None => s.bones[b].track[1].mute

\* the parent of every body
Parents(s) ==
    [i \in Bodies |-> <<s.bodies[i].parent, s.bodies[i].parent_type, s.bodies[i].parent_bone>>]

\* the steps of build() in their order: Phase A and the fake-parent resolution
\* are over before any body is attached or any proxy made, the joints are
\* placed after the attach of every body, and the rigid-track constraints are
\* muted until __postBuild
PhaseOrder ==
    /\ AfterPreBuild =>
          /\ \A i \in Listed(Started) :
                /\ HasBackup(rig.bodies[i])
                /\ rig.bodies[i].relation[1].mute
          /\ \A j \in Joints : HasBackup(rig.joints[j])
          /\ rig.fake_parent_map.st = "dict"
          /\ rig.evaluated.by = "__preBuild"
          /\ Transforms(rig) = Transforms(Started)
          /\ Parents(rig) = Parents(Started)
          /\ TrackProxies(rig) = {}
          /\ \A n \in 0..Len(rigidBodies(rig)) :
                ~AttachedUpTo(rig, n).error =>
                    /\ TracksMuted(AttachedUpTo(rig, n))
                    /\ Transforms(AttachedUpTo(rig, n)).joints = Transforms(Started).joints
    /\ AfterAttach =>
          /\ Transforms(rig).joints = Transforms(Started).joints
          /\ \A i \in Listed(Started) :
                rig.bodies[i].rigid_body => rig.bodies[i].collision_shape_set
    /\ (pc = "postBuild" /\ hist = "building") =>
          /\ rig.empty_parent_map.st = "dict"
          /\ \A k \in TrackProxies(rig) : rig.temps[k].parent = 0
    /\ (pc \in {"buildRigids", "buildJoints", "postBuild"} /\ hist = "building") =>
          TracksMuted(rig)

\* __postBuild has returned: the proxies are parented to their owners and the
\* rigid-track constraints are unmuted
PostBuildDone ==
    /\ \A k \in TrackProxies(rig) : rig.temps[k].parent \in Bodies
    /\ \A b \in Bones : rig.bones[b].track # None => ~rig.bones[b].track[1].mute

\* C25 as stated: the phases run in order with the rigid-track constraints
\* muted during the assembly, and the last forced scene evaluation of build()
\* comes after the proxies were re-parented and the constraints unmuted.
C25_AsStated ==
    /\ PhaseOrder
    /\ hist = "built" =>
          /\ PostBuildDone
          /\ rig.evaluated.by = "__postBuild"
          /\ rig.evaluated.track = [b \in Bones |-> rig.bones[b].track]
          /\ rig.evaluated.parents = [k \in DOMAIN rig.temps |-> rig.temps[k].parent]

\* C25: the phases run in order with the rigid-track constraints muted during
\* the assembly; __postBuild forces its scene evaluation first, and only then
\* re-parents the track proxies to their final owners and unmutes the
\* rigid-track constraints: the last evaluation of build() saw the
\* constraints muted and the proxies under the temporary group.
C25_PhaseOrder ==
    /\ PhaseOrder
    /\ hist = "built" =>
          /\ PostBuildDone
          /\ rig.evaluated.by = "__postBuild"
          /\ \A b \in Bones :
                /\ (rig.evaluated.track[b] # None) <=> (rig.bones[b].track # None)
                /\ rig.evaluated.track[b] # None => rig.evaluated.track[b][1].mute
          /\ \A k \in TrackProxies(rig) : rig.evaluated.parents[k] = 0

\* a build with a track proxy completed: the proxy is parented to its owner
\* and the constraint unmuted, which the last evaluation did not see
C25_Witness ==
    /\ hist = "built"
    /\ \E b \in Bones : \E k \in TrackProxies(rig) :
          /\ BonesOf(rig, k) = {b}
          /\ rig.temps[k].parent \in Bodies
          /\ ~rig.bones[b].track[1].mute
          /\ rig.evaluated.parents[k] = 0
          /\ rig.evaluated.track[b][1].mute

\* ------------------------------------------------------- the IK constraints
\* the bones targeted by a DYNAMIC or DYNAMIC_BONE body that __preBuild visits
MutedBones(s) ==
    {TargetOf(s, i) : i \in {k \in Listed(s) :
                                s.bodies[k].type \in {MODE_DYNAMIC, MODE_DYNAMIC_BONE}}}
        \ {NoBone}

\* every IK constraint of bone b is muted (mute = TRUE) or unmuted
IKMuted(s, b, mute) == \A k \in DOMAIN s.bones[b].ik : s.bones[b].ik[k].mute = mute

\* C26: every IK constraint on a bone targeted by a DYNAMIC / DYNAMIC_BONE body
\* is muted from the end of Phase A through the rest of build() and while the
\* rig stays BUILT, whether build() completed or raised; the clean() that
\* follows unmutes every one of them, also on a bone whose owning body lost its
\* parent-relation constraint during the build.
C26_IKMuted ==
    /\ ((pc \in {"buildRigids", "buildJoints", "postBuild"} /\ hist = "building")
            \/ (pc = "idle" /\ hist \in {"built", "aborted"}))
          => \A b \in MutedBones(Started) : IKMuted(rig, b, TRUE)
    /\ (pc = "idle" /\ hist \in {"cleaned", "restored"})
          => \A b \in MutedBones(Started) : IKMuted(rig, b, FALSE)

\* clean() ran after a build in which the owner of the proxy of a bone with an
\* IK constraint had lost its relation: the constraint was muted, and is not
C26_Witness ==
    /\ pc = "idle"
    /\ hist = "cleaned"
    /\ \E b \in MutedBones(Started) : \E w \in ProxyOwners(post, b) :
          /\ post.bodies[w].relation = None
          /\ post.bones[b].ik # None
          /\ IKMuted(post, b, TRUE)
          /\ IKMuted(rig, b, FALSE)
          /\ rig.bodies[w].relation # None

\* ----------------------------------------------------------- joint placement
\* buildJoints has returned within build()
AfterJoints == pc = "postBuild" /\ hist = "building"

\* the bodies that resolve a bone-relative matrix in a build started from s:
\* visited by buildRigids, bound to the physics engine, with a bone target
Resolved(s) ==
    {i \in Listed(s) : s.bodies[i].rigid_body /\ TargetOf(s, i) \in Bones}

\* the pose of joint j of s moved by matrix m
Placed(s, j, m) ==
    decompose(matmul(m, Basis(s.joints[j].location, s.joints[j].rotation)))

\* C27: when buildJoints has run, a joint with a constraint whose endpoint 1
\* resolved a bone-relative matrix is placed by that matrix times its local
\* matrix; else, when endpoint 2 resolved one, by that of endpoint 2; a joint
\* of which neither endpoint resolved a matrix, or without constraint, keeps
\* its authored location and rotation.
C27_JointPlacement ==
    (AfterJoints \/ hist = "built") =>
        \A j \in Joints :
            LET jo  == Started.joints[j]
                e1  == jo.rbc /\ jo.object1 \in Resolved(Started)
                e2  == jo.rbc /\ jo.object2 \in Resolved(Started)
                now == <<rig.joints[j].location, rig.joints[j].rotation>>
                at(i) == Placed(Started, j, BoneRelativeMatrix(TargetOf(Started, i)))
            IN  /\ e1 => now = <<at(jo.object1).t, at(jo.object1).r>>
                /\ (~e1 /\ e2) => now = <<at(jo.object2).t, at(jo.object2).r>>
                /\ (~e1 /\ ~e2) => now = <<jo.location, jo.rotation>>

\* both endpoints of a joint resolved a matrix, that of endpoint 2 would move
\* the joint and that of endpoint 1 leaves it; another joint follows its
\* endpoint 2 because endpoint 1 resolved none
C27_Witness ==
    /\ AfterJoints
    /\ \E j \in Joints :
          /\ Started.joints[j].rbc
          /\ {Started.joints[j].object1, Started.joints[j].object2} \subseteq Resolved(Started)
          /\ BoneRelativeMatrix(TargetOf(Started, Started.joints[j].object1)) = Identity
          /\ BoneRelativeMatrix(TargetOf(Started, Started.joints[j].object2)) # Identity
          /\ rig.joints[j].location = Started.joints[j].location
    /\ \E j \in Joints :
          /\ Started.joints[j].rbc
          /\ Started.joints[j].object1 \notin Resolved(Started)
          /\ Started.joints[j].object2 \in Resolved(Started)
          /\ rig.joints[j].location # Started.joints[j].location

\* ------------------------------------------------------------ re-parenting
\* build() is running or has ended, by returning or by raising
InOrAfterBuild == pc # "none" /\ hist \in {"building", "built", "aborted"}

\* the bodies whose parent build() leaves alone: DYNAMIC and DYNAMIC_BONE
\* bodies (the fake children are among them) and bodies without bone target
KeepParent(s) ==
    {i \in Bodies :
        \/ s.bodies[i].type \in {MODE_DYNAMIC, MODE_DYNAMIC_BONE}
        \/ get_bone(s.bodies[i]) = NoBone}

\* C28: during build() and after it, every DYNAMIC or DYNAMIC_BONE body, every
\* fake child and every body without bone target has the parent it had when
\* build() was called; a body whose parent differs is a STATIC body with a bone
\* target, under the bone or (by the clean() a build() on a BUILT rig starts
\* with) under the rigid-body group; the transient objects whose parent is a
\* body are the track-target proxies.
C28_ParentsKept ==
    /\ InOrAfterBuild =>
          /\ \A i \in KeepParent(pre) : Parents(rig)[i] = Parents(pre)[i]
          /\ FakeChildren([fake_parent_map |-> [st |-> "dict", d |-> maps.fake]])
                 \subseteq KeepParent(pre)
          /\ \A i \in Bodies :
                Parents(rig)[i] # Parents(pre)[i] =>
                    /\ pre.bodies[i].type = MODE_STATIC
                    /\ get_bone(pre.bodies[i]) \in Bones
                    /\ rig.bodies[i].parent \in {"arm", "rigid_grp"}
          /\ \A k \in DOMAIN rig.temps :
                rig.temps[k].parent # 0 => k \in TrackProxies(rig)
    /\ AfterPreBuild =>
          \A n \in 0..Len(rigidBodies(rig)) : \A i \in KeepParent(pre) :
              Parents(AttachedUpTo(rig, n))[i] = Parents(pre)[i]

\* a build completed that moved a fake child and a DYNAMIC body with a bone
\* without touching their parents, and re-parented a STATIC body and a proxy
C28_Witness ==
    /\ hist = "built"
    /\ ~pre.is_built
    /\ \E c \in Bodies : \E a \in DOMAIN maps.fake :
          /\ \E n \in DOMAIN maps.fake[a] : maps.fake[a][n] = c
          /\ rig.bodies[c].location # pre.bodies[c].location
          /\ Parents(rig)[c] = Parents(pre)[c]
    /\ \E i \in Bodies :
          /\ pre.bodies[i].type = MODE_STATIC
          /\ Parents(rig)[i] # Parents(pre)[i]
    /\ \E k \in TrackProxies(rig) :
          /\ rig.temps[k].parent \in Bodies
          /\ Parents(rig)[rig.temps[k].parent] = Parents(pre)[rig.temps[k].parent]

\* -------------------------------------------- the kind of the track constraint
\* C29: the rigid-track constraint of a bone has the kind given by the first
\* body attached to the bone (COPY_TRANSFORMS for DYNAMIC, COPY_ROTATION for
\* DYNAMIC_BONE), from its creation to the end of the build, whoever owns the
\* proxy in the end.
C29_KindFixed ==
    /\ (AfterAttach \/ AfterJoints \/ hist = "built") =>
          \A b \in Bones :
              /\ rig.bones[b].track # None <=> Contenders(b) # {}
              /\ Contenders(b) # {} =>
                    LET first == CHOOSE i \in Contenders(b) : \A k \in Contenders(b) : i <= k
                    IN  rig.bones[b].track[1].type =
                            (IF base.bodies[first].type = MODE_DYNAMIC
                             THEN "COPY_TRANSFORMS" ELSE "COPY_ROTATION")
    /\ AfterPreBuild =>
          \A n \in 1..Len(rigidBodies(rig)) : \A b \in Bones :
              LET before == AttachedUpTo(rig, n - 1)
                  after  == AttachedUpTo(rig, n)
              IN  (~after.error /\ before.bones[b].track # None) =>
                      after.bones[b].track[1].type = before.bones[b].track[1].type

\* the proxy of a bone was made for a DYNAMIC body and went over to a heavier
\* DYNAMIC_BONE body: the constraint is still COPY_TRANSFORMS
C29_Witness ==
    /\ hist = "built"
    /\ \E b \in Bones : \E i, j \in Contenders(b) :
          /\ i < j
          /\ \A k \in Contenders(b) : i <= k
          /\ base.bodies[i].type = MODE_DYNAMIC
          /\ base.bodies[j].type = MODE_DYNAMIC_BONE
          /\ base.bodies[i].mass < base.bodies[j].mass
          /\ ProxyOwners(rig, b) = {j}
          /\ rig.bones[b].track[1].type = "COPY_TRANSFORMS"

\* ------------------------------------------- edits of a body's dynamics kind
\* between two calls of build() and clean() the user edits mmd_rigid.type of
\* a body (the property is a plain field: nothing else changes).  The rigs:
\* body 1 a DYNAMIC body of mass MaxMass on bone 1, body 2 of any kind and of
\* mass 1, on bone 1 or without bone, every further body STATIC without bone,
\* on the chain of joints
EditRigs ==
    {NewRig([i \in Bodies |->
               NewBody(c[i].type, c[i].bone, c[i].mass, 0,
                       IF i = 1 THEN {0} ELSE {}, BodyRange(i),
                       BodyLocation(i), BodyRotation(i))],
            MkJoints([j \in Joints |-> ChainJoint(j)])) :
        c \in {d \in [Bodies -> AttachChoices] :
                  \A i \in Bodies :
                      /\ i = 1 => d[i] = [type |-> MODE_DYNAMIC, bone |-> 1, mass |-> MaxMass]
                      /\ i = 2 => (d[i].mass = 1 /\ d[i].bone # 2)
                      /\ i > 2 => d[i] = [type |-> MODE_STATIC, bone |-> NoBone, mass |-> 1]}}

EditInit ==
    /\ rig \in EditRigs
    /\ pc = "none"
    /\ pre = rig
    /\ base = rig
    /\ post = rig
    /\ maps = [fake |-> <<>>, matrix |-> <<>>]
    /\ hist = "new"
    /\ arg = [call |-> "none", param |-> 0, n |-> 0]
    /\ ret = "none"

\* rigid_obj.mmd_rigid.type = str(t), between two calls
EditKind ==
    \E i \in Bodies : \E t \in Modes :
        /\ pc = "idle"
        /\ arg.n < MaxEdits
        /\ t # rig.bodies[i].type
        /\ rig' = [rig EXCEPT !.bodies[i].type = t]
        /\ arg' = [call |-> "edit", param |-> i, n |-> arg.n + 1]
        /\ UNCHANGED <<pc, pre, base, post, maps, hist, ret>>

EditNext == Next \/ EditKind

EditSpec == EditInit /\ [][EditNext]_vars

\* C30: rigidBodies() lists every rigid body of the rig, before build(), while
\* the rig is BUILT and after clean(), whatever dynamics kinds were edited
\* between the calls.
C30_AsStated == pc # "none" => Listed(rig) = Bodies

====
